---- MODULE Spec2Model ----
(***************************************************************************)
(* A model of dfmt (varkappadev/dfmt): the dynamic value tree, the         *)
(* configurable transformer with its nil-removal and string-to-number      *)
(* policies, the transformer pipeline, and the convert command around      *)
(* them.                                                                   *)
(*                                                                         *)
(* A Go interface{} value is a record tagged by its dynamic kind:          *)
(*   [t |-> "nil"]                       the nil interface                 *)
(*   [t |-> "bool",   b |-> TRUE]                                          *)
(*   [t |-> "int",    neg |-> , mag |-> ] a signed integer, sign+digits    *)
(*   [t |-> "float",  class |-> , ...]    a float64                        *)
(*   [t |-> "string", str |-> <<chars>>]  a string, one character a cell   *)
(*   [t |-> "slice",  elems |-> <<..>>]   a non-nil []interface{}          *)
(*   [t |-> "map",    entries |-> [keys -> values]]  a non-nil map         *)
(*   [t |-> "nilslice"], [t |-> "nilmap"] a typed nil slice / map          *)
(*   [t |-> "strings", strs |-> <<..>>]   a non-nil []string               *)
(*   [t |-> "nilstrings"]                 the nil []string                 *)
(* A field name holds one type of value in every record, and the fields    *)
(* of two kinds differ, so that any two values can be compared.            *)
(* Integers are kept as digit sequences so that the 64-bit boundary of     *)
(* strconv.ParseInt is inside the model.                                   *)
(***************************************************************************)
EXTENDS Integers, Sequences, FiniteSets, TLC

VARIABLES
    pc,           \* position of the operation under way
    s,            \* CustomStringNumberParser: the token
    finiteOnly,   \* CustomStringNumberParser: the finite-only flag
    parsed,       \* CustomStringNumberParser: the value returned
    data,         \* Transform: the value tree handed to the transformer
    transformer,  \* Transform: the Transformer applied
    result,       \* Transform: what Transform returned, [value, err]
    again,        \* Transform: what Transform returned on its own result
    pipeIndex,    \* TransformerPipeline.Transform: index of the range loop
    pipeValue,    \* TransformerPipeline.Transform: the variable value
    pipeErr,      \* TransformerPipeline.Transform: the variable err
    calls,        \* the stage invocations so far, in order
    command,      \* dfmt: the command run, convert or remove-nulls
    prettyPrint,  \* dfmt: CLI option value
    inputType,    \* dfmt: CLI option value
    outputType,   \* dfmt: CLI option value
    stringToJSONNumber, \* dfmt: CLI option value
    fieldDelim,   \* dfmt: CLI option value
    recordDelim,  \* dfmt: CLI option value
    input,        \* dfmt: CLI argument value
    output,       \* dfmt: CLI argument value
    rmValues,     \* dfmt remove-nulls: CLI option value
    rmElements,   \* dfmt remove-nulls: CLI option value
    inputFormat,  \* what NewInputFormat returned, or ConvertStream's informat
    outputFormat, \* what NewOutputFormat returned, or ConvertStream's outformat
    reader,       \* ConvertStream: the input stream
    writer,       \* ConvertStream: the output stream
    transformed,  \* ConvertStream: the variable transformed
    bytes,        \* Marshal: the encoded buffer
    written,      \* the bytes the output stream has received
    trace,        \* the stages ConvertStream has run, in order
    returned,     \* the error ConvertStream or ConvertFile returned
    exitCode,     \* the exit code of the process
    decoder,      \* YAMLFormat.Unmarshal: the documents the decoder has left
    documents,    \* YAMLFormat.Unmarshal: the variable documents
    document,     \* YAMLFormat.Unmarshal: the variable document
    receiver,     \* the format f whose Unmarshal or Marshal is running
    content,      \* TextFormat.Unmarshal: the variable bytes, all of the reader
    records,      \* TextFormat.Unmarshal: the variable records
    decoded,      \* what Unmarshal returned: [value, err]
    file,         \* INIFormat.Unmarshal: the sections ini.Load returned
    ndata,        \* TOMLFormat.Marshal: the variable ndata
    delimLabel,   \* normalizeDelim: the argument label
    delim,        \* normalizeDelim: what the call came to
    selected,     \* a SliceSelector's argument element
    kept,         \* what the SliceSelector returned
    events,       \* the converter and selector invocations so far, in order
    stack,        \* the calls of transformSlice and transformMap under way, innermost last
    outputFile,   \* ConvertFile: the file named by outfile, as the file system holds it
    offset        \* ConvertFile: the write position of the opened output file

numberVars == <<s, finiteOnly, parsed>>
transformVars == <<data, transformer, result, again>>
pipelineVars == <<pipeIndex, pipeValue, pipeErr, calls>>
optionVars == <<command, prettyPrint, inputType, outputType, stringToJSONNumber,
                fieldDelim, recordDelim, input, output, rmValues, rmElements>>
formatVars == <<inputFormat, outputFormat>>
streamVars == <<reader, writer, transformed, bytes, written, trace, returned, exitCode>>
convertVars == <<optionVars, formatVars, streamVars>>
yamlVars == <<decoder, documents, document>>
fileVars == <<outputFile, offset>>

adapterVars == <<receiver, content, records, decoded, file, ndata, delimLabel, delim, selected, kept, events, stack>>

vars == <<pc, numberVars, transformVars, pipelineVars, convertVars, yamlVars, fileVars, adapterVars>>

\* What a variable holds while its operation has not run.
None == [t |-> "none"]

NumberIdle == s = None /\ finiteOnly = None /\ parsed = None

TransformIdle == data = None /\ transformer = None /\ result = None /\ again = None

PipelineIdle == pipeIndex = None /\ pipeValue = None /\ pipeErr = None /\ calls = None

OptionsIdle ==
    /\ command = None /\ prettyPrint = None /\ inputType = None /\ outputType = None
    /\ stringToJSONNumber = None /\ fieldDelim = None /\ recordDelim = None
    /\ input = None /\ output = None /\ rmValues = None /\ rmElements = None

FormatsIdle == inputFormat = None /\ outputFormat = None

StreamIdle ==
    /\ reader = None /\ writer = None /\ transformed = None /\ bytes = None
    /\ written = None /\ trace = None /\ returned = None /\ exitCode = None

ConvertIdle == OptionsIdle /\ FormatsIdle /\ StreamIdle

YamlIdle == decoder = None /\ documents = None /\ document = None

FileIdle == outputFile = None /\ offset = None

AdapterIdle ==
    /\ receiver = None /\ content = None /\ records = None /\ decoded = None
    /\ file = None /\ ndata = None /\ delimLabel = None /\ delim = None
    /\ selected = None /\ kept = None /\ events = None /\ stack = None

(***************************************************************************)
(* Values                                                                  *)
(***************************************************************************)
Nil == [t |-> "nil"]
Str(chars) == [t |-> "string", str |-> chars]
IntVal(neg, mag) == [t |-> "int", neg |-> neg, mag |-> mag]
FloatFinite(neg, mant, exp) ==
    [t |-> "float", class |-> "finite", neg |-> neg, mant |-> mant, exp |-> exp]
FloatInf(neg) == [t |-> "float", class |-> "inf", neg |-> neg]
FloatNaN == [t |-> "float", class |-> "nan"]

(***************************************************************************)
(* strconv, as CustomStringNumberParser uses it.  Tokens are sequences of  *)
(* one-character strings over the characters of decimal literals and of    *)
(* the special names; base prefixes and underscores are outside the        *)
(* alphabet the model draws tokens from.                                   *)
(***************************************************************************)
DigitChars == <<"0", "1", "2", "3", "4", "5", "6", "7", "8", "9">>

IsDigit(c) == \E i \in 1..10 : DigitChars[i] = c

DigitVal(c) == (CHOOSE i \in 1..10 : DigitChars[i] = c) - 1

\* strconv.lower: c | ('x' - 'X'), on the letters the model uses.
lower(c) ==
    CASE c = "E" -> "e"
      [] c = "I" -> "i"
      [] c = "N" -> "n"
      [] c = "F" -> "f"
      [] c = "A" -> "a"
      [] c = "T" -> "t"
      [] c = "Y" -> "y"
      [] OTHER -> c

\* s[lo:], 0-based as in Go.
From(str, lo) == SubSeq(str, lo + 1, Len(str))

\* The number of leading characters of str that are digits.
DigitRun(str) ==
    IF \A i \in DOMAIN str : IsDigit(str[i]) THEN Len(str)
    ELSE (CHOOSE i \in DOMAIN str :
             ~IsDigit(str[i]) /\ \A j \in 1..(i - 1) : IsDigit(str[j])) - 1

DigitsOf(str) == [i \in 1..Len(str) |-> DigitVal(str[i])]

StripLeadingZeros(ds) ==
    IF \A i \in DOMAIN ds : ds[i] = 0 THEN <<>>
    ELSE SubSeq(ds, CHOOSE i \in DOMAIN ds : ds[i] # 0 /\ \A j \in 1..(i - 1) : ds[j] = 0,
                Len(ds))

StripTrailingZeros(ds) ==
    IF \A i \in DOMAIN ds : ds[i] = 0 THEN <<>>
    ELSE SubSeq(ds, 1,
                CHOOSE i \in DOMAIN ds : ds[i] # 0 /\ \A j \in (i + 1)..Len(ds) : ds[j] = 0)

\* Lexicographic order of two digit sequences, the shorter padded with zeros.
RECURSIVE LexLess(_, _)
LexLess(a, b) ==
    IF a = <<>> THEN \E i \in 1..Len(b) : b[i] # 0
    ELSE IF b = <<>> THEN FALSE
    ELSE IF a[1] # b[1] THEN a[1] < b[1]
    ELSE LexLess(Tail(a), Tail(b))

\* a < b for magnitudes without leading zeros.
MagLess(a, b) ==
    \/ Len(a) < Len(b)
    \/ Len(a) = Len(b) /\ LexLess(a, b)

\* 1 << (bitSize - 1), the cutoff of strconv.ParseInt.
Cutoff(bitSize) ==
    CASE bitSize = 8  -> <<1, 2, 8>>
      [] bitSize = 16 -> <<3, 2, 7, 6, 8>>
      [] bitSize = 32 -> <<2, 1, 4, 7, 4, 8, 3, 6, 4, 8>>
      [] bitSize = 64 -> <<9, 2, 2, 3, 3, 7, 2, 0, 3, 6, 8, 5, 4, 7, 7, 5, 8, 0, 8>>

\* The range check of strconv.ParseInt on the magnitude un.
ParseIntRange(neg, un, cutoff) ==
    IF (~neg /\ ~MagLess(un, cutoff)) \/ (neg /\ MagLess(cutoff, un))
    THEN [err |-> "range"]
    ELSE [err |-> "nil", v |-> IntVal(neg /\ un # <<>>, un)]

\* strconv.ParseUint on what follows the sign: decimal digits only.
ParseIntDigits(neg, body, bitSize) ==
    IF body = <<>> \/ DigitRun(body) # Len(body) THEN [err |-> "syntax"]
    ELSE ParseIntRange(neg, StripLeadingZeros(DigitsOf(body)), Cutoff(bitSize))

\* strconv.ParseInt(s, 10, bitSize): [err |-> ..., v |-> the integer].
ParseInt(str, bitSize) ==
    IF str = <<>> THEN [err |-> "syntax"]
    ELSE ParseIntDigits(str[1] = "-",
                        IF str[1] \in {"+", "-"} THEN Tail(str) ELSE str,
                        bitSize)

\* strconv.commonPrefixLenIgnoreCase(s, prefix), prefix in lower case.
RECURSIVE commonPrefixLenIgnoreCase(_, _)
commonPrefixLenIgnoreCase(str, prefix) ==
    IF str = <<>> \/ prefix = <<>> \/ lower(str[1]) # prefix[1] THEN 0
    ELSE 1 + commonPrefixLenIgnoreCase(Tail(str), Tail(prefix))

\* strconv.special, the infinity case: n0 characters of "infinity" matched.
specialInf(n0, neg, nsign) ==
    IF n0 = 3 \/ (3 < n0 /\ n0 < 8)
    THEN [ok |-> TRUE, f |-> FloatInf(neg), n |-> nsign + 3]
    ELSE IF n0 = 8 THEN [ok |-> TRUE, f |-> FloatInf(neg), n |-> nsign + 8]
    ELSE [ok |-> FALSE]

\* strconv.special: [ok, f, n], n the characters consumed.
special(str) ==
    IF str = <<>> THEN [ok |-> FALSE]
    ELSE IF str[1] \in {"+", "-", "i", "I"} THEN
        specialInf(commonPrefixLenIgnoreCase(
                       IF str[1] \in {"+", "-"} THEN Tail(str) ELSE str,
                       <<"i", "n", "f", "i", "n", "i", "t", "y">>),
                   str[1] = "-",
                   IF str[1] \in {"+", "-"} THEN 1 ELSE 0)
    ELSE IF str[1] \in {"n", "N"} THEN
        IF commonPrefixLenIgnoreCase(str, <<"n", "a", "n">>) = 3
        THEN [ok |-> TRUE, f |-> FloatNaN, n |-> 3]
        ELSE [ok |-> FALSE]
    ELSE [ok |-> FALSE]

\* The decimal value of a digit sequence, capped as readFloat caps the exponent.
RECURSIVE ExpValue(_, _)
ExpValue(ds, e) ==
    IF ds = <<>> THEN e
    ELSE ExpValue(Tail(ds), IF e < 10000 THEN e * 10 + ds[1] ELSE e)

\* strconv.readFloat on a decimal literal returns [ok, n, neg, digits, dp]: the
\* value is 0.digits * 10^dp and n counts the characters consumed.  The scan is
\* split where the Go loop moves on: sign, mantissa, exponent mark, exponent sign,
\* exponent digits; i is the 0-based index reached.
readFloatDone(neg, digits, dp, n) ==
    [ok |-> TRUE, n |-> n, neg |-> neg, digits |-> digits, dp |-> dp]

readExponentDigits(str, neg, digits, nint, i, esign, edig) ==
    IF edig = 0 THEN [ok |-> FALSE]
    ELSE readFloatDone(neg, digits,
                       nint + esign * ExpValue(DigitsOf(SubSeq(str, i + 1, i + edig)), 0),
                       i + edig)

readExponentSign(str, neg, digits, nint, i) ==
    IF i >= Len(str) THEN [ok |-> FALSE]
    ELSE readExponentDigits(str, neg, digits, nint,
                            IF str[i + 1] \in {"+", "-"} THEN i + 1 ELSE i,
                            IF str[i + 1] = "-" THEN -1 ELSE 1,
                            DigitRun(From(str, IF str[i + 1] \in {"+", "-"} THEN i + 1 ELSE i)))

readExponent(str, neg, digits, nint, i) ==
    IF digits = <<>> THEN [ok |-> FALSE]
    ELSE IF i < Len(str) /\ lower(str[i + 1]) = "e"
         THEN readExponentSign(str, neg, digits, nint, i + 1)
         ELSE readFloatDone(neg, digits, nint, i)

\* ndot: the characters of the dot and the fraction digits, 0 without a dot.
readMantissa(str, nsign, nint, ndot) ==
    readExponent(str, nsign = 1 /\ str[1] = "-",
                 DigitsOf(SubSeq(str, nsign + 1, nsign + nint))
                     \o DigitsOf(SubSeq(str, nsign + nint + 2, nsign + nint + ndot)),
                 nint, nsign + nint + ndot)

readInteger(str, nsign, nint) ==
    readMantissa(str, nsign, nint,
                 IF nsign + nint < Len(str) /\ str[nsign + nint + 1] = "."
                 THEN 1 + DigitRun(From(str, nsign + nint + 1))
                 ELSE 0)

readSign(str, nsign) == readInteger(str, nsign, DigitRun(From(str, nsign)))

readFloat(str) ==
    readSign(str, IF str # <<>> /\ str[1] \in {"+", "-"} THEN 1 ELSE 0)

\* The digits of 2^1024 - 2^970, the least magnitude that rounds to infinity,
\* which is 1.79769313486231580793...e308.
OverflowMant == <<1, 7, 9, 7, 6, 9, 3, 1, 3, 4, 8, 6, 2, 3, 1, 5, 8, 0, 7, 9, 3>>
OverflowExp == 308
\* Below 10^UnderflowExp a decimal rounds to zero.
UnderflowExp == -324

\* The float of a decimal: sign, significant digits mant, scientific exponent exp.
\* Rounding to the nearest binary float is not modelled.
atof64Range(neg, mant, exp) ==
    IF mant = <<>> THEN [err |-> "nil", v |-> FloatFinite(neg, <<>>, 0)]
    ELSE IF exp > OverflowExp \/ (exp = OverflowExp /\ ~LexLess(mant, OverflowMant))
         THEN [err |-> "range"]
    ELSE IF exp < UnderflowExp THEN [err |-> "nil", v |-> FloatFinite(neg, <<>>, 0)]
    ELSE [err |-> "nil", v |-> FloatFinite(neg, mant, exp)]

atof64Digits(neg, nd, sig, dp) ==
    atof64Range(neg, StripTrailingZeros(sig), dp - (nd - Len(sig)) - 1)

atof64Decimal(str, r) ==
    IF ~r.ok \/ r.n # Len(str) THEN [err |-> "syntax"]
    ELSE atof64Digits(r.neg, Len(r.digits), StripLeadingZeros(r.digits), r.dp)

atof64(str, sp) ==
    IF sp.ok THEN (IF sp.n = Len(str) THEN [err |-> "nil", v |-> sp.f]
                   ELSE [err |-> "syntax"])
    ELSE atof64Decimal(str, readFloat(str))

\* strconv.ParseFloat(s, 64): [err, v].
ParseFloat(str) == atof64(str, special(str))

\* math.IsInf(f, 0) || math.IsNaN(f)
IsInfOrNaN(f) == f.class \in {"inf", "nan"}

\* A parser that returns every float, finite or not, in finite-only mode too.
NumberOrStringAnyFloat(str, f, finite) ==
    IF f.err # "nil" THEN Str(str) ELSE f.v

\* CustomStringNumberParser after a failed integer parse: f is ParseFloat's result.
NumberOrString(str, f, finite) ==
    IF f.err # "nil" THEN Str(str)
    ELSE IF ~finite THEN f.v
    ELSE IF ~IsInfOrNaN(f.v) THEN f.v
    ELSE Str(str)

\* CustomStringNumberParser after the integer parse: i is ParseInt's result.
IntegerOrFloat(str, i, finite) ==
    IF i.err = "nil" THEN i.v ELSE NumberOrString(str, ParseFloat(str), finite)

\* CustomStringNumberParser(s, intbits, floatbits = 64, finiteOnly)
CustomStringNumberParser(str, intbits, finite) ==
    IF str = <<>> THEN Str(str) ELSE IntegerOrFloat(str, ParseInt(str, intbits), finite)

IntBits == 64

StringToFiniteNumberParser(str) == CustomStringNumberParser(str, IntBits, TRUE)

(***************************************************************************)
(* Value trees                                                             *)
(***************************************************************************)
Slice(elems) == [t |-> "slice", elems |-> elems]
Map(f) == [t |-> "map", entries |-> f]
NilSlice == [t |-> "nilslice"]
NilMap == [t |-> "nilmap"]

\* reflect.TypeOf(val).Kind(), for the kinds the transformer tells apart.
Kind(val) ==
    CASE val.t \in {"slice", "nilslice", "strings", "nilstrings"} -> "Slice"
      [] val.t \in {"map", "nilmap"} -> "Map"
      [] OTHER -> val.t

\* isNil: the nil interface, or a nil val of a nil-able kind.
isNil(val) ==
    IF val.t = "nil" THEN TRUE
    ELSE IF Kind(val) \in {"Slice", "Map"} THEN val.t \in {"nilslice", "nilmap", "nilstrings"}
    ELSE FALSE

\* data[lo:hi] and data[n] with Go's 0-based indices.
Reslice(elems, lo, hi) == SubSeq(elems, lo + 1, hi)
At(elems, n) == elems[n + 1]

\* reflect.Value.SetMapIndex(k, reflect.ValueOf(d)): reflect.ValueOf of the nil
\* interface is the zero Value, and SetMapIndex with the zero Value deletes k.
SetMapIndex(m, k, d) ==
    IF d.t = "nil" THEN [x \in (DOMAIN m) \ {k} |-> m[x]]
    ELSE [x \in (DOMAIN m) \cup {k} |-> IF x = k THEN d ELSE m[x]]

\* data.SetMapIndex(k, reflect.Value{})
DeleteMapIndex(m, k) == [x \in (DOMAIN m) \ {k} |-> m[x]]

(***************************************************************************)
(* Selectors and converters.  A slot of a transformer holds a record       *)
(* naming the function: [name |-> "nil"] is the nil func, "rejects" is a   *)
(* caller's selector that rejects the values of a given set.               *)
(***************************************************************************)
NilFunc == [name |-> "nil"]
Named(name) == [name |-> name]
Rejecting(values) == [name |-> "rejects", values |-> values]
Returning(val) == [name |-> "returns", out |-> val]

NonNilElementSelector(element) == ~isNil(element)

\* A selector that rejects empty mappings as it does empty lists.
NonEmptyCollectionSelector(element) ==
    IF Kind(element) = "Map" THEN element.t = "map" /\ DOMAIN element.entries # {}
    ELSE IF Kind(element) = "Slice"
    THEN (IF element.t = "slice" THEN Len(element.elems) > 0
          ELSE IF element.t = "strings" THEN Len(element.strs) > 0 ELSE FALSE)
    ELSE TRUE

NonEmptySliceOrArrayAsElementSelector(element) ==
    IF Kind(element) = "Slice"
    THEN (IF element.t = "slice" THEN Len(element.elems) > 0
          ELSE IF element.t = "strings" THEN Len(element.strs) > 0 ELSE FALSE)
    ELSE TRUE

NonNilKeySelector(key, val) == ~isNil(key)

NonNilValueSelector(key, val) == ~isNil(val)

\* A key-val selector that keeps a pair when either side is non-nil.
NonNilKeyOrValueSelector(key, val) == ~isNil(key) \/ ~isNil(val)

NonNilKeyValueSelector(key, val) == ~isNil(key) /\ ~isNil(val)

\* t.sliceSelector(element)
CallSliceSelector(sel, element) ==
    CASE sel.name = "keepAll" -> TRUE
      [] sel.name = "NonNilElementSelector" -> NonNilElementSelector(element)
      [] sel.name = "NonEmptySliceOrArrayAsElementSelector" ->
             NonEmptySliceOrArrayAsElementSelector(element)
      [] sel.name = "rejects" -> element \notin sel.values

\* t.kvSelector(key, val)
CallKeyValueSelector(sel, key, val) ==
    CASE sel.name = "keepAll" -> TRUE
      [] sel.name = "NonNilKeySelector" -> NonNilKeySelector(key, val)
      [] sel.name = "NonNilValueSelector" -> NonNilValueSelector(key, val)
      [] sel.name = "NonNilKeyValueSelector" -> NonNilKeyValueSelector(key, val)

\* t.stringTransformer(d)
CallStringConverter(conv, chars) ==
    CASE conv.name = "identity" -> Str(chars)
      [] conv.name = "returns" -> conv.out
      [] conv.name = "StringToFiniteNumberParser" -> StringToFiniteNumberParser(chars)

\* t.float64Transformer(d) and t.complex128Transformer(d): the defaults, and
\* converters that return one value whatever they are given.
CallNumberConverter(conv, val) ==
    CASE conv.name = "identity" -> val
      [] conv.name = "returns" -> conv.out

(***************************************************************************)
(* Transformers                                                            *)
(***************************************************************************)
NopTransformer == [kind |-> "NopTransformer"]

NewConfigurableTransformer(sc, fc, cc, es, kv) ==
    IF sc = NilFunc /\ fc = NilFunc /\ cc = NilFunc /\ es = NilFunc /\ kv = NilFunc
    THEN NopTransformer
    ELSE [kind |-> "callingTransformer",
          stringTransformer     |-> IF sc = NilFunc THEN Named("identity") ELSE sc,
          float64Transformer    |-> IF fc = NilFunc THEN Named("identity") ELSE fc,
          complex128Transformer |-> IF cc = NilFunc THEN Named("identity") ELSE cc,
          sliceSelector         |-> IF es = NilFunc THEN Named("keepAll") ELSE es,
          kvSelector            |-> IF kv = NilFunc THEN Named("keepAll") ELSE kv]

Return(val, e) == [value |-> val, err |-> e]

\* A removal loop that does not step its index back after a removal.
AfterRemovalNoStepBack(n) == n + 1

\* The index after the removal of element n: n--, then the loop's n++.
AfterRemoval(n) == (n - 1) + 1

\* A removal whose last-element case cuts one element too many.
RemoveAtCutsTwo(elems, n) ==
    IF n = 0 THEN Reslice(elems, 1, Len(elems))
    ELSE IF n = Len(elems) - 1 THEN Reslice(elems, 0, n - 1)
    ELSE Reslice(elems, 0, n) \o Reslice(elems, n + 1, Len(elems))

\* mutant of RemoveAt: the element stays in data.
RemoveAtKeepsElement(elems, n) == elems

\* The three ways transformSlice cuts element n out of data.
RemoveAt(elems, n) ==
    IF n = 0 THEN Reslice(elems, 1, Len(elems))
    ELSE IF n = Len(elems) - 1 THEN Reslice(elems, 0, n)
    ELSE Reslice(elems, 0, n) \o Reslice(elems, n + 1, Len(elems))

\* The second loop of transformSlice, from index n.
RECURSIVE removeRejected(_, _, _)
removeRejected(t, elems, n) ==
    IF ~(n < Len(elems)) THEN elems
    ELSE IF ~CallSliceSelector(t.sliceSelector, At(elems, n))
         THEN removeRejected(t, RemoveAt(elems, n), AfterRemoval(n))
         ELSE removeRejected(t, elems, n + 1)

\* A first loop that also leaves containers alone, so never descends.
SkipsValueAndContainers(val) == isNil(val) \/ Kind(val) \in {"Slice", "Map"}

\* A first loop that leaves no value alone.
SkipsNoValue(val) == FALSE

\* The keys the first loop of transformMap leaves alone.
SkipsValue(val) == isNil(val)

\* The second loop of transformMap over data.MapKeys().
RECURSIVE removeRejectedPairs(_, _, _)
removeRejectedPairs(t, m, keys) ==
    IF keys = {} THEN m
    ELSE LET k == CHOOSE x \in keys : TRUE
         IN  removeRejectedPairs(t,
                 IF ~CallKeyValueSelector(t.kvSelector, k, m[k])
                 THEN DeleteMapIndex(m, k) ELSE m,
                 keys \ {k})

RECURSIVE transformInterface(_, _)
RECURSIVE transformMap(_, _)
RECURSIVE transformSlice(_, _)
RECURSIVE convertElements(_, _, _)
RECURSIVE convertValues(_, _, _)

\* The first loop of transformSlice, from index n.
convertElements(t, elems, n) ==
    IF ~(n < Len(elems)) THEN Return(elems, "nil")
    ELSE LET r == transformInterface(t, At(elems, n))
         IN  IF r.err # "nil" THEN Return(elems, r.err)
             ELSE convertElements(t, [elems EXCEPT ![n + 1] = r.value], n + 1)

\* The first loop of transformMap over the keys snapshot.
convertValues(t, m, keys) ==
    IF keys = {} THEN Return(m, "nil")
    ELSE LET k == CHOOSE x \in keys : TRUE
         IN  IF SkipsValue(m[k]) THEN convertValues(t, m, keys \ {k})
             ELSE LET r == transformInterface(t, m[k])
                  IN  IF r.err # "nil" THEN Return(m, r.err)
                      ELSE convertValues(t, SetMapIndex(m, k, r.value), keys \ {k})

transformSlice(t, val) ==
    IF isNil(val) THEN Return(val, "nil")
    ELSE LET c == convertElements(t, val.elems, 0)
         IN  IF c.err # "nil" THEN Return(Slice(c.value), c.err)
             ELSE Return(Slice(removeRejected(t, c.value, 0)), "nil")

transformMap(t, val) ==
    IF Kind(val) # "Map"
    THEN Return(Nil, "transformMap was unexpectedly invoked on something other than a map")
    ELSE LET c == convertValues(t, val.entries, DOMAIN val.entries)
         IN  IF c.err # "nil" THEN Return(Map(c.value), c.err)
             ELSE Return(Map(removeRejectedPairs(t, c.value, DOMAIN c.value)), "nil")

\* data.([]interface{}) panics for a slice of another element type.
transformInterface(t, val) ==
    CASE val.t = "string" -> Return(CallStringConverter(t.stringTransformer, val.str), "nil")
      [] val.t = "float" -> Return(CallNumberConverter(t.float64Transformer, val), "nil")
      [] val.t = "complex" -> Return(CallNumberConverter(t.complex128Transformer, val), "nil")
      [] OTHER ->
           IF isNil(val) THEN Return(Nil, "nil")
           ELSE IF Kind(val) = "Map" THEN transformMap(t, val)
           ELSE IF Kind(val) = "Slice" THEN
                  (IF val.t = "slice" THEN transformSlice(t, val)
                   ELSE Return(None, "panic: interface conversion"))
           ELSE Return(val, "nil")

\* callingTransformer.Transform
CallingTransform(t, val) ==
    IF val.t = "nil" THEN Return(val, "nil") ELSE transformInterface(t, val)

\* Transformer.Transform of the two stock implementations.
TransformWith(t, val) ==
    IF t.kind = "NopTransformer" THEN Return(val, "nil") ELSE CallingTransform(t, val)

\* NilRemovalTransformer.Transform
NilRemovalTransform(t, val) ==
    IF val.t = "nil" THEN Return(val, "nil")
    ELSE
      LET sliceSelector == IF t.RemoveNilElements THEN Named("NonNilElementSelector")
                           ELSE NilFunc
          kvSelector ==
              IF t.RemoveNilKeys /\ t.RemoveNilValues THEN Named("NonNilKeyValueSelector")
              ELSE IF t.RemoveNilKeys THEN Named("NonNilKeySelector")
              ELSE IF t.RemoveNilValues THEN Named("NonNilValueSelector")
              ELSE NilFunc
      IN  TransformWith(
              NewConfigurableTransformer(NilFunc, NilFunc, NilFunc, sliceSelector, kvSelector),
              val)

\* A Transformer of the caller's: it appends its mark to a list and returns its
\* err with the val.
StubTransform(t, v) ==
    Return(IF v.t = "slice" THEN Slice(Append(v.elems, t.mark)) ELSE v, t.err)

\* The nil Transformer in a slot of a pipeline.
NilTransformer == [kind |-> "nil"]

TransformerPipeline(transformers) ==
    [kind |-> "TransformerPipeline", Transformers |-> transformers]

\* Transform of any Transformer the model holds; for a TransformerPipeline the
\* whole range loop, from the transformers it has left.
RECURSIVE Transform(_, _)
RECURSIVE RangeTransformers(_, _)
AfterTransform(rest, r) ==
    IF r.err # "nil" THEN r ELSE RangeTransformers(rest, r.value)

RangeTransformers(rest, val) ==
    IF rest = <<>> THEN Return(val, "nil")
    ELSE IF Head(rest) = NilTransformer THEN RangeTransformers(Tail(rest), val)
    ELSE AfterTransform(Tail(rest), Transform(Head(rest), val))

Transform(t, v) ==
    IF t.kind = "NilRemovalTransformer" THEN NilRemovalTransform(t, v)
    ELSE IF t.kind = "stub" THEN StubTransform(t, v)
    ELSE IF t.kind = "TransformerPipeline" THEN RangeTransformers(t.Transformers, v)
    ELSE TransformWith(t, v)

\* The loop of NewMultiTransformer: the non-nil transformers, in order.
RECURSIVE AppendNonNil(_)
AppendNonNil(transformers) ==
    IF transformers = <<>> THEN <<>>
    ELSE (IF Head(transformers) # NilTransformer THEN <<Head(transformers)>> ELSE <<>>)
             \o AppendNonNil(Tail(transformers))

NewMultiTransformer(transformers) == TransformerPipeline(AppendNonNil(transformers))

(***************************************************************************)
(* The number string parser applied to one token.                          *)
(***************************************************************************)
MaxTokenLen == 3

TokenAlphabet == {"0", "1", "9", "-", "+", ".", "e", "E", "i", "n", "f", "N", "a"}

RECURSIVE TokensUpTo(_)
TokensUpTo(n) ==
    IF n = 0 THEN {<<>>}
    ELSE LET shorter == TokensUpTo(n - 1)
         IN  shorter \cup {Append(w, c) : w \in {x \in shorter : Len(x) = n - 1},
                                          c \in TokenAlphabet}

\* Longer tokens: the 64-bit boundary, the float range, the special names and
\* the literals of TestCsfParsing and TestMultiSectionIniImport.
LongTokens ==
    { <<"9","2","2","3","3","7","2","0","3","6","8","5","4","7","7","5","8","0","7">>,
      <<"9","2","2","3","3","7","2","0","3","6","8","5","4","7","7","5","8","0","8">>,
      <<"-","9","2","2","3","3","7","2","0","3","6","8","5","4","7","7","5","8","0","8">>,
      <<"-","9","2","2","3","3","7","2","0","3","6","8","5","4","7","7","5","8","0","9">>,
      <<"1","2","3","4","5","6","7","8","9","0","1","2","3","4","5","6","7","8","9","0",
        "1","2","3","4","5","6","7","8","9","0">>,
      <<"0","0","1","2","3">>, <<"1",".","9","9","9","9","9">>,
      <<"1","E","-","0","5">>, <<"1","e","9","9","9">>, <<"1","e","-","9","9","9">>,
      <<"1","e","3","0","8">>, <<"2","e","3","0","8">>, <<"-","2","e","3","0","8">>,
      <<"I","n","f","i","n","i","t","y">>, <<"-","i","n","f","i","n","i","t","y">>,
      <<"i","n","f","i","n","i","t">>, <<"-","I","n","f">>, <<"+","i","n","f">>,
      <<"N","a","N">>, <<"-","n","a","n">>, <<"n","a","n","1">>,
      <<"1","2",".","5","e","+","1">>, <<"1","2","a">>, <<"a","b","c">>,
      <<"1","2","3">>, <<"2",".","5">>, <<"-","I","n","f">>,
      <<"1">> \o [i \in 1..308 |-> "0"], <<"1">> \o [i \in 1..309 |-> "0"] }

Tokens == TokensUpTo(MaxTokenLen) \cup LongTokens


NumberInit ==
    /\ pc = "parse"
    /\ s \in Tokens
    /\ finiteOnly \in BOOLEAN
    /\ parsed = None
    /\ TransformIdle
    /\ PipelineIdle
    /\ ConvertIdle
    /\ YamlIdle /\ FileIdle
    /\ AdapterIdle

\* One call of CustomStringNumberParser(s, 64, 64, finiteOnly);
\* StringToFiniteNumberParser is the call with finiteOnly = TRUE.
ParseNumber ==
    /\ pc = "parse"
    /\ parsed' = CustomStringNumberParser(s, IntBits, finiteOnly)
    /\ pc' = "parsed"
    /\ UNCHANGED <<s, finiteOnly, transformVars, pipelineVars, convertVars, yamlVars, fileVars, adapterVars>>

NumberNext == ParseNumber

SpecNumber == NumberInit /\ [][NumberNext]_vars

(***************************************************************************)
(* A transformer applied to one value tree, and once more to its result.   *)
(***************************************************************************)
MaxLen == 4
MaxInnerLen == 2
MaxOuterLen == 2

Int1 == IntVal(FALSE, <<1>>)
Int2 == IntVal(FALSE, <<2>>)
StrS == Str(<<"s">>)
Str1 == Str(<<"1">>)
Str3 == Str(<<"3">>)
StrA == Str(<<"a">>)
StrC == Str(<<"c">>)

SeqsUpTo(values, n) == UNION {[1..k -> values] : k \in 0..n}
MapsOver(keys, values) == UNION {[ks -> values] : ks \in SUBSET keys}

\* Flat lists, for the list pass under any selector and either string converter.
Elements == {Nil, Int1, StrS, Str1}
FlatLists == {Slice(e) : e \in SeqsUpTo(Elements, MaxLen)}

SliceSelectors ==
    {NilFunc, Named("NonNilElementSelector"), Named("NonEmptySliceOrArrayAsElementSelector")}
        \cup {Rejecting(vs) : vs \in SUBSET {Nil, Int1, StrS, Str1}}

ListTransformers ==
    {NewConfigurableTransformer(sc, NilFunc, NilFunc, es, NilFunc) :
        sc \in {NilFunc, Named("StringToFiniteNumberParser")}, es \in SliceSelectors}

\* Flat mappings, with the keys of TestNilRemovalFromMap.
FlatMaps == {Map(m) : m \in MapsOver({Nil, Int2, Str3}, {Nil, Int1, StrS})}

\* Trees of lists and mappings two containers deep.
NestLeaves == {Nil, Int1}
InnerLists == {Slice(e) : e \in SeqsUpTo(NestLeaves, MaxInnerLen)}
InnerMaps == {Map(m) : m \in MapsOver({Nil, StrA}, NestLeaves)}
Children == NestLeaves \cup InnerLists \cup InnerMaps
OuterLists == {Slice(e) : e \in SeqsUpTo(Children, MaxOuterLen)}
OuterMaps == {Map(m) : m \in MapsOver({Nil, StrA, StrC}, Children)}

\* The trees of TestNilRemovalFromArray (shortened) and TestRecursiveNilRemoval.
TestTrees ==
    { Slice(<<Nil, Int1, StrS, Nil, Int2, Nil, Nil>>),
      Map((Nil :> StrS) @@ (StrA :> Nil) @@ (StrC :> Slice(<<Nil, Int1>>))) }

NilTrees == {Nil, Int1, StrS} \cup FlatLists \cup FlatMaps \cup OuterLists \cup OuterMaps
                \cup TestTrees

NilRemovalTransformers ==
    {[kind |-> "NilRemovalTransformer", RemoveNilKeys |-> k, RemoveNilValues |-> v,
      RemoveNilElements |-> e] : k \in BOOLEAN, v \in BOOLEAN, e \in BOOLEAN}

TransformInit ==
    /\ pc = "transform"
    /\ \/ data \in NilTrees /\ transformer \in NilRemovalTransformers
       \/ data \in FlatLists /\ transformer \in ListTransformers
    /\ result = None
    /\ again = None
    /\ NumberIdle
    /\ PipelineIdle
    /\ ConvertIdle
    /\ YamlIdle /\ FileIdle
    /\ AdapterIdle

\* tvalue, err := transformer.Transform(value)
ApplyTransform ==
    /\ pc = "transform"
    /\ result' = Transform(transformer, data)
    /\ pc' = "transformed"
    /\ UNCHANGED <<data, transformer, again, numberVars, pipelineVars, convertVars, yamlVars, fileVars, adapterVars>>

\* transformer.Transform(tvalue): the same transformer on its own result.
ApplyAgain ==
    /\ pc = "transformed"
    /\ result.err = "nil"
    /\ again' = Transform(transformer, result.value)
    /\ pc' = "again"
    /\ UNCHANGED <<data, transformer, result, numberVars, pipelineVars, convertVars, yamlVars, fileVars, adapterVars>>

TransformNext == ApplyTransform \/ ApplyAgain

SpecTransform == TransformInit /\ [][TransformNext]_vars

(***************************************************************************)
(* Claims about the transformation engine                                  *)
(***************************************************************************)
IsLeaf(value) == Kind(value) \notin {"Slice", "Map"}

\* The elements of a sequence that satisfy a selector, in their order.
RECURSIVE SelectKept(_, _)
SelectKept(elems, sel) ==
    IF elems = <<>> THEN <<>>
    ELSE (IF CallSliceSelector(sel, Head(elems)) THEN <<Head(elems)>> ELSE <<>>)
             \o SelectKept(Tail(elems), sel)

\* A flat list after the conversion pass.
PostConversion(t, elems) ==
    [i \in 1..Len(elems) |->
        IF elems[i].t = "string" THEN CallStringConverter(t.stringTransformer, elems[i].str)
        ELSE elems[i]]

Transformed == pc \in {"transformed", "again"}

FlatListCase ==
    /\ Transformed
    /\ transformer.kind = "callingTransformer"
    /\ data.t = "slice"
    /\ \A i \in 1..Len(data.elems) : IsLeaf(data.elems[i])

\* C1: the list handling of a configurable transformer returns exactly the
\* post-conversion elements that satisfy the element selector, in their original
\* relative order, whatever the positions of the rejected elements.
C1_ListKeepsExactlySelected ==
    FlatListCase =>
        /\ result.err = "nil"
        /\ result.value =
               Slice(SelectKept(PostConversion(transformer, data.elems),
                                transformer.sliceSelector))

\* Rejected elements first, in an adjacent run and last, around one survivor.
C1_Witness ==
    /\ FlatListCase
    /\ transformer.sliceSelector = Named("NonNilElementSelector")
    /\ data = Slice(<<Nil, Nil, Int1, Nil>>)
    /\ result.value = Slice(<<Int1>>)

NilRemovalCase == Transformed /\ transformer.kind = "NilRemovalTransformer"

\* The entries NilRemovalTransformer is to drop.
DropsPair(t, key, value) ==
    \/ t.RemoveNilKeys /\ key = Nil
    \/ t.RemoveNilValues /\ value = Nil

FlatMapCase ==
    /\ NilRemovalCase
    /\ data.t = "map"
    /\ \A k \in DOMAIN data.entries : IsLeaf(data.entries[k])

\* C2: on a mapping NilRemovalTransformer.Transform drops exactly the entries with
\* (RemoveNilKeys and a nil key) or (RemoveNilValues and a nil value) and keeps
\* every other entry with its key and value unchanged.
C2_MapDropsExactlyNilPairs ==
    FlatMapCase =>
        /\ result.err = "nil"
        /\ result.value.t = "map"
        /\ DOMAIN result.value.entries =
               {k \in DOMAIN data.entries : ~DropsPair(transformer, k, data.entries[k])}
        /\ \A k \in DOMAIN result.value.entries :
               result.value.entries[k] = data.entries[k]

\* The mapping of TestNilKeyRemovalFromMap with nil keys only removed.
C2_Witness ==
    /\ FlatMapCase
    /\ transformer.RemoveNilKeys /\ ~transformer.RemoveNilValues
    /\ data = Map((Nil :> Int1) @@ (Int2 :> Nil) @@ (Str3 :> StrS))
    /\ result.value = Map((Int2 :> Nil) @@ (Str3 :> StrS))

\* The recursive reference filter of nil removal.
RECURSIVE RefFilter(_, _)
RefFilter(t, value) ==
    IF value.t = "slice" THEN
        LET inner == [i \in 1..Len(value.elems) |-> RefFilter(t, value.elems[i])]
        IN  Slice(SelectKept(inner, IF t.RemoveNilElements THEN Rejecting({Nil})
                                    ELSE Named("keepAll")))
    ELSE IF value.t = "map" THEN
        LET m == value.entries
        IN  Map([k \in {x \in DOMAIN m : ~DropsPair(t, x, m[x])} |-> RefFilter(t, m[k])])
    ELSE value

\* C3: NilRemovalTransformer applies at every nesting depth: the result is the
\* recursive reference filter of the tree, in which containers that are or become
\* empty stay empty containers.
C3_NilRemovalIsRecursiveFilter ==
    NilRemovalCase => result = Return(RefFilter(transformer, data), "nil")

\* A nested list loses its only element and stays in the mapping, empty, though
\* nil values are removed.
C3_Witness ==
    /\ NilRemovalCase
    /\ transformer.RemoveNilValues /\ transformer.RemoveNilElements
    /\ data = Map((StrA :> Nil) @@ (StrC :> Slice(<<Nil>>)))
    /\ result.value = Map(StrC :> Slice(<<>>))

\* C4: nil removal is idempotent: NilRemovalTransformer.Transform applied to its
\* own result returns that result.
C4_NilRemovalIdempotent ==
    (pc = "again" /\ transformer.kind = "NilRemovalTransformer") => again = result

\* The second application ran on a tree the first one had shortened.
C4_Witness ==
    /\ pc = "again"
    /\ transformer.kind = "NilRemovalTransformer"
    /\ data = Slice(<<Nil, Nil, Int1>>)
    /\ result.value = Slice(<<Int1>>)
    /\ again = result

(***************************************************************************)
(* TransformerPipeline.Transform, one pass of its range loop a step.       *)
(***************************************************************************)
MaxStages == 4

OkStub == [kind |-> "stub", mark |-> Int1, err |-> "nil"]
FailingStub == [kind |-> "stub", mark |-> Int2, err |-> "stage failed"]

Slots ==
    { NilTransformer, NopTransformer, OkStub, FailingStub,
      [kind |-> "NilRemovalTransformer", RemoveNilKeys |-> FALSE,
       RemoveNilValues |-> FALSE, RemoveNilElements |-> TRUE] }

\* A pipeline is a TransformerPipeline literal, whose slots may hold nil, or the
\* result of NewMultiTransformer.
Pipelines ==
    {TransformerPipeline(ts) : ts \in SeqsUpTo(Slots, MaxStages)}
    \cup {NewMultiTransformer(ts) : ts \in SeqsUpTo(Slots, MaxStages)}

PipelineInit ==
    /\ pc = "range"
    /\ transformer \in Pipelines
    /\ data \in {Slice(<<>>), Slice(<<Nil, Int1>>), StrS}
    /\ pipeIndex = 0
    /\ pipeValue = data
    /\ pipeErr = "nil"
    /\ calls = <<>>
    /\ result = None
    /\ again = None
    /\ NumberIdle
    /\ ConvertIdle
    /\ YamlIdle /\ FileIdle
    /\ AdapterIdle

InRange == pc = "range" /\ pipeIndex < Len(transformer.Transformers)

\* A pipeline that goes on to the next stage after an error.
AfterStageGoesOn(e) == "next"

\* if err != nil { return value, err }
AfterStage(e) == IF e # "nil" THEN "return value, err" ELSE "next"

\* if t == nil { continue }
SkipNilSlot ==
    /\ InRange
    /\ At(transformer.Transformers, pipeIndex) = NilTransformer
    /\ pipeIndex' = pipeIndex + 1
    /\ UNCHANGED <<pc, pipeValue, pipeErr, calls, transformVars, numberVars, convertVars, yamlVars, fileVars, adapterVars>>

\* value, err = t.Transform(value), on a stage r being what Transform returned.
StageReturned(r) ==
    /\ pipeValue' = r.value
    /\ pipeErr' = r.err
    /\ calls' = Append(calls, [stage |-> pipeIndex, input |-> pipeValue,
                               output |-> r.value, err |-> r.err])
    /\ IF AfterStage(r.err) = "next"
       THEN pipeIndex' = pipeIndex + 1 /\ UNCHANGED <<pc, result>>
       ELSE pc' = "returned" /\ result' = Return(r.value, r.err)
                             /\ UNCHANGED pipeIndex

InvokeStage ==
    /\ InRange
    /\ At(transformer.Transformers, pipeIndex) # NilTransformer
    /\ StageReturned(Transform(At(transformer.Transformers, pipeIndex), pipeValue))
    /\ UNCHANGED <<data, transformer, again, numberVars, convertVars, yamlVars, fileVars, adapterVars>>

\* return value, nil
ReturnValue ==
    /\ pc = "range"
    /\ pipeIndex = Len(transformer.Transformers)
    /\ result' = Return(pipeValue, "nil")
    /\ pc' = "returned"
    /\ UNCHANGED <<data, transformer, again, pipelineVars, numberVars, convertVars, yamlVars, fileVars, adapterVars>>

PipelineNext == SkipNilSlot \/ InvokeStage \/ ReturnValue

SpecPipeline == PipelineInit /\ [][PipelineNext]_vars

(***************************************************************************)
(* Claims about the pipeline                                               *)
(***************************************************************************)
Stages == 0 .. (Len(transformer.Transformers) - 1)

NonEmpty(i) == At(transformer.Transformers, i) # NilTransformer

Invoked(i) == \E k \in DOMAIN calls : calls[k].stage = i

InvokedWithoutError(i) == \E k \in DOMAIN calls : calls[k].stage = i /\ calls[k].err = "nil"

\* The value the k-th invoked stage must have received.
Received(k) == IF k = 1 THEN data ELSE calls[k - 1].output

\* C5: the stages are invoked strictly left to right, empty slots are never
\* invoked, each invoked stage receives the value the previously invoked stage
\* returned (the first one the pipeline's argument) and returns what its own
\* Transform returns for it; when the pipeline has returned, a stage has been
\* invoked if and only if it is non-empty and every earlier non-empty stage
\* returned no error, and the pipeline's value and error are those of the last
\* invoked stage.
C5_PipelineLeftToRightFirstErrorAborts ==
    pc \in {"range", "returned"} =>
        /\ \A k \in DOMAIN calls :
            /\ calls[k].stage \in Stages
            /\ NonEmpty(calls[k].stage)
            /\ k > 1 => calls[k - 1].stage < calls[k].stage
            /\ calls[k].input = Received(k)
            /\ Return(calls[k].output, calls[k].err)
                 = Transform(At(transformer.Transformers, calls[k].stage), calls[k].input)
        /\ pc = "returned" =>
            /\ \A i \in Stages :
                Invoked(i) <=>
                    /\ NonEmpty(i)
                    /\ \A j \in 0 .. (i - 1) : NonEmpty(j) => InvokedWithoutError(j)
            /\ calls # <<>> =>
                result = Return(calls[Len(calls)].output, calls[Len(calls)].err)
            /\ calls = <<>> => result = Return(data, "nil")
            /\ result = Transform(transformer, data)

\* A pipeline of four slots has returned: its first slot is empty, its second
\* stage succeeded and changed the value, its third failed, and its fourth,
\* which is not empty, was never invoked.
C5_Witness ==
    /\ pc = "returned"
    /\ Len(transformer.Transformers) = 4
    /\ ~NonEmpty(0)
    /\ Len(calls) = 2
    /\ calls[1].err = "nil"
    /\ calls[1].output # data
    /\ calls[2].err # "nil"
    /\ result.err = calls[2].err
    /\ NonEmpty(3) /\ ~Invoked(3)

(***************************************************************************)
(* Claims about the number string parser                                   *)
(***************************************************************************)
\* The token without its sign.
Unsigned(str) == IF str # <<>> /\ str[1] \in {"+", "-"} THEN Tail(str) ELSE str

\* An optional sign and then decimal digits, at least one.
IsIntegerLiteral(str) ==
    /\ Unsigned(str) # <<>>
    /\ \A i \in DOMAIN Unsigned(str) : IsDigit(Unsigned(str)[i])

Magnitude(str) == StripLeadingZeros(DigitsOf(Unsigned(str)))

TwoTo63 == <<9, 2, 2, 3, 3, 7, 2, 0, 3, 6, 8, 5, 4, 7, 7, 5, 8, 0, 8>>

\* The literal is in -2^63 .. 2^63 - 1.
WithinInt64(str) ==
    \/ MagLess(Magnitude(str), TwoTo63)
    \/ str[1] = "-" /\ Magnitude(str) = TwoTo63

IsInt64(str) == IsIntegerLiteral(str) /\ WithinInt64(str)

Int64Of(str) == IntVal(str[1] = "-" /\ Magnitude(str) # <<>>, Magnitude(str))

ParsesAsFloat(str) == ParseFloat(str).err = "nil"

NonFinite(val) == val.t = "float" /\ val.class \in {"inf", "nan"}

\* What the precedence of the claim gives for a token, f being the float parse.
Classified(str, finite, f) ==
    IF str = <<>> THEN Str(str)
    ELSE IF IsInt64(str) THEN Int64Of(str)
    ELSE IF f.err = "nil" /\ ~(finite /\ NonFinite(f.v)) THEN f.v
    ELSE Str(str)

\* C7: the number string parser returns a value for every token (a string, an
\* Integer or a Float), by this precedence: the empty string unchanged; a signed
\* base-10 integer within 64 bits as that Integer; otherwise a token that parses
\* as a 64-bit float as that Float, an integer literal outside the 64-bit range
\* included; otherwise the original string.  In finite-only mode a token whose
\* float parse is infinite or NaN comes back as the original string, so the
\* finite-only parser never returns a non-finite number.
C7_NumberParserPrecedence ==
    pc = "parsed" =>
        /\ parsed.t \in {"string", "int", "float"}
        /\ parsed = Classified(s, finiteOnly, ParseFloat(s))
        /\ parsed.t = "string" => parsed = Str(s)
        /\ (IsIntegerLiteral(s) /\ ~WithinInt64(s) /\ ParsesAsFloat(s)) =>
              parsed.t = "float" /\ parsed.class = "finite"
        /\ finiteOnly => ~NonFinite(parsed)
        /\ finiteOnly => StringToFiniteNumberParser(s) = parsed
        /\ s = <<"1","2","3">> => parsed = IntVal(FALSE, <<1, 2, 3>>)
        /\ s = <<"2",".","5">> => parsed = FloatFinite(FALSE, <<2, 5>>, 0)
        /\ s = <<"1","E","-","0","5">> => parsed = FloatFinite(FALSE, <<1>>, -5)
        /\ (finiteOnly /\ s \in {<<"-","I","n","f">>, <<"N","a","N">>, <<"i","n","f">>})
              => parsed = Str(s)

\* 2^63, an integer literal just outside the 64-bit range, has been parsed in
\* finite-only mode and is a Float.
C7_Witness ==
    /\ pc = "parsed"
    /\ finiteOnly
    /\ s = <<"9","2","2","3","3","7","2","0","3","6","8","5","4","7","7","5","8","0","8">>
    /\ parsed.t = "float"

(***************************************************************************)
(* Format selection.  Names, labels and file names are sequences of        *)
(* characters.                                                             *)
(***************************************************************************)
UpperLetters == <<"A", "B", "C", "D", "E", "F", "G", "H", "I", "J", "K", "L", "M", "N", "O", "P", "Q", "R", "S", "T", "U", "V", "W", "X", "Y", "Z">>
LowerLetters == <<"a", "b", "c", "d", "e", "f", "g", "h", "i", "j", "k", "l", "m", "n", "o", "p", "q", "r", "s", "t", "u", "v", "w", "x", "y", "z">>

\* unicode.ToLower on the characters the model uses.
ToLowerChar(c) ==
    IF \E i \in DOMAIN UpperLetters : UpperLetters[i] = c
    THEN LowerLetters[CHOOSE i \in DOMAIN UpperLetters : UpperLetters[i] = c]
    ELSE c

\* strings.ToLower
ToLower(str) == [i \in DOMAIN str |-> ToLowerChar(str[i])]

\* strings.EqualFold, which on these characters is equality of the lower cases.
EqualFold(a, b) == ToLower(a) = ToLower(b)

containsFold(val, slice) == \E i \in DOMAIN slice : EqualFold(val, slice[i])

sliceToLower(sl) == [i \in DOMAIN sl |-> ToLower(sl[i])]

\* path.Ext: the suffix from the last dot of the last element of the path.
Ext(path) ==
    IF \E i \in DOMAIN path : path[i] = "." /\ \A j \in i..Len(path) : path[j] # "/"
    THEN SubSeq(path,
                CHOOSE i \in DOMAIN path :
                    /\ path[i] = "."
                    /\ \A j \in (i + 1)..Len(path) : path[j] \notin {".", "/"},
                Len(path))
    ELSE <<>>

autoFormat == <<"a", "u", "t", "o">>
formatNameJSON == <<"J", "S", "O", "N">>
formatNameYAML == <<"Y", "A", "M", "L">>
formatNameTOML == <<"T", "O", "M", "L">>
formatNameINI == <<"I", "N", "I">>
formatNamesStrings == <<<<"L", "i", "n", "e", "s">>, <<"S", "t", "r", "i", "n", "g", "s">>>>
formatNameStrings == formatNamesStrings[1]
formatNamesNTStr == <<<<"N", "T", "S", "t", "r">>, <<"N", "T", "S", "t", "r", "i", "n", "g", "s">>, <<"N", "T", "S", "t", "r", "i", "n", "g">>, <<"N", "T", "S">>>>
formatNameNTStr == formatNamesNTStr[1]
formatNameCSF == <<"C", "S", "F">>

fidJSON == ToLower(formatNameJSON)
fidYAML == ToLower(formatNameYAML)
fidTOML == ToLower(formatNameTOML)
fidINI == ToLower(formatNameINI)
fidsStrings == sliceToLower(formatNamesStrings)
fidsNTStr == sliceToLower(formatNamesNTStr)
fidCSF == ToLower(formatNameCSF)

\* The characters behind the labels: tab, carriage return, line feed and NUL.
TabChar == "\t"
CrChar == "\r"
LfChar == "\n"
NulChar == "\\000"

exitNoError == 0
exitInputError == 1
exitOutputError == 2
exitTransformError == 4
exitConfigurationError == 32

\* namedDelimiters, as the pairs of label and delimiter.
namedDelimiters ==
    { <<<<"N", "L">>, <<>>>>, <<<<"T", "A", "B">>, <<TabChar>>>>, <<<<"C", "R">>, <<CrChar>>>>,
      <<<<"L", "F">>, <<LfChar>>>>, <<<<"N", "U", "L">>, <<NulChar>>>>, <<<<"N", "U", "L", "L">>, <<NulChar>>>>,
      <<<<>>, <<>>>> }

\* A character outside ASCII: U+00A7, two bytes in the UTF-8 of a Go string.
SectionSign == "\\302\\247"

Utf8Len(c) == IF c = SectionSign THEN 2 ELSE 1

\* len(str): the number of bytes of the string.
RECURSIVE ByteLen(_)
ByteLen(str) == IF str = <<>> THEN 0 ELSE Utf8Len(Head(str)) + ByteLen(Tail(str))

\* normalizeDelim(label): [ok, delim]; where ok is FALSE it has called
\* exit(exitConfigurationError, ...).
normalizeDelim(label) ==
    IF ByteLen(label) = 1 THEN [ok |-> TRUE, delim |-> label]
    ELSE IF \E e \in namedDelimiters : e[1] = label
         THEN [ok |-> TRUE, delim |-> (CHOOSE e \in namedDelimiters : e[1] = label)[2]]
         ELSE [ok |-> FALSE, delim |-> <<>>]

JSONFormat(pretty) == [type |-> "JSONFormat", PrettyPrint |-> pretty]
YAMLFormat(pretty) == [type |-> "YAMLFormat", PrettyPrint |-> pretty]
TOMLFormat(pretty) == [type |-> "TOMLFormat", PrettyPrint |-> pretty, DefaultKey |-> <<>>]
INIFormat(sensitive) == [type |-> "INIFormat", CaseSensitive |-> sensitive, DefaultKey |-> <<>>]
TextFormat(rdelim, fdelim) ==
    [type |-> "TextFormat", RecordDelimiter |-> rdelim, FieldDelimiter |-> fdelim]
NoFormat == [type |-> "nil"]

\* Name() of a format.
Name(f) ==
    CASE f.type = "JSONFormat" -> formatNameJSON
      [] f.type = "YAMLFormat" -> formatNameYAML
      [] f.type = "TOMLFormat" -> formatNameTOML
      [] f.type = "INIFormat" -> formatNameINI
      [] f.type = "TextFormat" ->
            IF f.FieldDelimiter = <<>>
            THEN (IF f.RecordDelimiter = <<>> THEN formatNameStrings
                  ELSE IF f.RecordDelimiter = <<NulChar>> THEN formatNameNTStr
                  ELSE formatNameCSF)
            ELSE formatNameCSF

\* SupportedExtensions() of a format type.
SupportedExtensions(type) ==
    CASE type = "JSONFormat" -> <<<<".", "j", "s", "o", "n">>>>
      [] type = "YAMLFormat" -> <<<<".", "y", "a", "m", "l">>, <<".", "y", "m", "l">>>>
      [] type = "TOMLFormat" -> <<<<".", "t", "o", "m", "l">>, <<".", "t", "m", "l">>>>
      [] type = "TextFormat" -> <<>>
      [] type = "INIFormat" -> <<<<".", "i", "n", "i">>>>

\* The types with an Unmarshal method, and those with a Marshal method.
Unmarshalers == {"JSONFormat", "YAMLFormat", "TOMLFormat", "TextFormat", "INIFormat"}
Marshalers == {"JSONFormat", "YAMLFormat", "TOMLFormat"}

\* What a constructor hands back: a format and an error, or the process has
\* exited with a code inside the call.
Returned(f, e) == [format |-> f, err |-> e, exited |-> FALSE, code |-> exitNoError]
Exited(c) == [format |-> NoFormat, err |-> "nil", exited |-> TRUE, code |-> c]

\* NewTextFormat(rdelim, fdelim), on the two normalised delimiters.
TextFormatOf(r, f) ==
    IF ~r.ok \/ ~f.ok THEN Exited(exitConfigurationError)
    ELSE Returned(TextFormat(r.delim, f.delim), "nil")

NewTextFormat(rdelim, fdelim) == TextFormatOf(normalizeDelim(rdelim), normalizeDelim(fdelim))

\* NewFormat after the switch on the format name: the extension decides.
FormatOfExtension(fileName, formatName, ext, pretty) ==
    IF formatName # autoFormat THEN Returned(NoFormat, "unknown/unexpected format name")
    ELSE IF containsFold(ext, SupportedExtensions("JSONFormat"))
         THEN Returned(JSONFormat(pretty), "nil")
    ELSE IF containsFold(ext, SupportedExtensions("YAMLFormat"))
         THEN Returned(YAMLFormat(pretty), "nil")
    ELSE IF containsFold(ext, SupportedExtensions("TOMLFormat"))
         THEN Returned(TOMLFormat(pretty), "nil")
    ELSE IF containsFold(ext, SupportedExtensions("INIFormat"))
         THEN Returned(INIFormat(FALSE), "nil")
    ELSE Returned(NoFormat, "cannot determine format of file")

\* NewFormat, fid being the lower case of the format name.
FormatOfName(fileName, formatName, fid, fdelim, rdelim, pretty) ==
    IF fid = fidJSON THEN Returned(JSONFormat(pretty), "nil")
    ELSE IF fid = fidYAML THEN Returned(YAMLFormat(pretty), "nil")
    ELSE IF fid = fidTOML THEN Returned(TOMLFormat(pretty), "nil")
    ELSE IF fid = fidCSF THEN NewTextFormat(rdelim, fdelim)
    ELSE IF fid = fidINI THEN Returned(INIFormat(FALSE), "nil")
    ELSE IF containsFold(fid, fidsStrings) THEN NewTextFormat(<<"N", "L">>, <<>>)
    ELSE IF containsFold(fid, fidsNTStr) THEN NewTextFormat(<<"N", "U", "L">>, <<>>)
    ELSE FormatOfExtension(fileName, formatName, Ext(fileName), pretty)

NewFormat(fileName, formatName, fdelim, rdelim, pretty) ==
    FormatOfName(fileName, formatName, ToLower(formatName), fdelim, rdelim, pretty)

\* The type assertion to OutputFormat that accepts every format.
AssertAnyFormat(r, methods, message) == r

\* format.(InputFormat) or format.(OutputFormat) on what NewFormat returned;
\* methods are the types that have the method asked for.
AssertFormat(r, methods, message) ==
    IF r.exited \/ r.err # "nil" THEN r
    ELSE IF r.format.type \in methods THEN r
    ELSE Returned(NoFormat, message)

NewInputFormat(fileName, formatName, fdelim, rdelim) ==
    AssertFormat(NewFormat(fileName, formatName, fdelim, rdelim, FALSE),
                 Unmarshalers, "cannot configure input")

NewOutputFormat(fileName, formatName, pretty) ==
    AssertFormat(NewFormat(fileName, formatName, <<>>, <<>>, pretty),
                 Marshalers, "cannot configure output")

(***************************************************************************)
(* NewInputFormat and NewOutputFormat called on the option values.         *)
(***************************************************************************)
FileNames ==
    { <<>>, <<"-">>, <<"a", ".", "j", "s", "o", "n">>, <<"a", ".", "J", "S", "O", "N">>, <<"a", ".", "y", "a", "m", "l">>, <<"a", ".", "y", "m", "l">>, <<"a", ".", "Y", "m", "l">>, <<"a", ".", "t", "o", "m", "l">>,
      <<"a", ".", "t", "m", "l">>, <<"a", ".", "i", "n", "i">>, <<"a", ".", "t", "x", "t">>, <<"a">>, <<"a", ".", "j", "s", "o", "n", ".", "b", "a", "k">>, <<"d", ".", "j", "s", "o", "n", "/", "a">>, <<"a", ".", "b", "/", "c", ".", "y", "m", "l">>,
      <<".", "j", "s", "o", "n">>, <<"a", ".">> }

FormatNames ==
    { <<"J", "S", "O", "N">>, <<"j", "s", "o", "n">>, <<"J", "s", "o", "n">>, <<"Y", "A", "M", "L">>, <<"y", "a", "m", "l">>, <<"T", "O", "M", "L">>, <<"t", "o", "m", "l">>, <<"I", "N", "I">>, <<"i", "n", "i">>,
      <<"C", "S", "F">>, <<"c", "s", "f">>, <<"L", "i", "n", "e", "s">>, <<"l", "i", "n", "e", "s">>, <<"S", "t", "r", "i", "n", "g", "s">>, <<"s", "t", "r", "i", "n", "g", "s">>, <<"N", "T", "S", "t", "r">>,
      <<"N", "T", "S", "t", "r", "i", "n", "g", "s">>, <<"N", "T", "S", "t", "r", "i", "n", "g">>, <<"N", "T", "S">>, <<"n", "t", "s">>, <<"a", "u", "t", "o">>, <<"A", "U", "T", "O">>, <<"A", "u", "t", "o">>, <<"x", "m", "l">>,
      <<"y", "m", "l">>, <<>>, <<"t", "e", "x", "t">>, <<".", "j", "s", "o", "n">>, <<"s", "t", "r", "i", "n", "g">> }

FieldDelims == { <<",">>, <<"T", "A", "B">>, <<>>, <<"X", "X">>, <<"t", "a", "b">> }
RecordDelims == { <<"N", "L">>, <<"|">>, <<"N", "U", "L">>, <<>>, <<"n", "l">>, <<"L", "F">> }

\* The option values before the command line sets any.
DefaultOptions ==
    /\ prettyPrint = FALSE
    /\ inputType = autoFormat
    /\ outputType = autoFormat
    /\ stringToJSONNumber = FALSE
    /\ fieldDelim = <<",">>
    /\ recordDelim = <<"N", "L">>
    /\ input = <<>>
    /\ output = <<>>

FormatInit ==
    /\ \/ /\ pc = "NewInputFormat"
          /\ input \in FileNames
          /\ inputType \in FormatNames
          /\ fieldDelim \in FieldDelims
          /\ recordDelim \in RecordDelims
          /\ output = <<>> /\ outputType = autoFormat /\ prettyPrint = FALSE
       \/ /\ pc = "NewOutputFormat"
          /\ output \in FileNames
          /\ outputType \in FormatNames
          /\ prettyPrint \in BOOLEAN
          /\ input = <<>> /\ inputType = autoFormat
          /\ fieldDelim = <<",">> /\ recordDelim = <<"N", "L">>
    /\ stringToJSONNumber = FALSE
    /\ command = None /\ rmValues = None /\ rmElements = None
    /\ FormatsIdle
    /\ StreamIdle
    /\ NumberIdle /\ TransformIdle /\ PipelineIdle /\ YamlIdle /\ FileIdle
    /\ AdapterIdle

CallNewInputFormat ==
    /\ pc = "NewInputFormat"
    /\ inputFormat' = NewInputFormat(input, inputType, fieldDelim, recordDelim)
    /\ pc' = "input format"
    /\ UNCHANGED <<outputFormat, optionVars, streamVars, numberVars, transformVars,
                   pipelineVars, yamlVars, fileVars, adapterVars>>

CallNewOutputFormat ==
    /\ pc = "NewOutputFormat"
    /\ outputFormat' = NewOutputFormat(output, outputType, prettyPrint)
    /\ pc' = "output format"
    /\ UNCHANGED <<inputFormat, optionVars, streamVars, numberVars, transformVars,
                   pipelineVars, yamlVars, fileVars, adapterVars>>

FormatNext == CallNewInputFormat \/ CallNewOutputFormat

SpecFormat == FormatInit /\ [][FormatNext]_vars

(***************************************************************************)
(* Claims about format selection                                           *)
(***************************************************************************)
\* The format a name designates, whatever its case; "none" for any other name.
NamedFormat(name) ==
    CASE ToLower(name) = <<"j", "s", "o", "n">> -> "JSON"
      [] ToLower(name) = <<"y", "a", "m", "l">> -> "YAML"
      [] ToLower(name) = <<"t", "o", "m", "l">> -> "TOML"
      [] ToLower(name) = <<"i", "n", "i">> -> "INI"
      [] ToLower(name) = <<"c", "s", "f">> -> "CSF"
      [] ToLower(name) \in {<<"l", "i", "n", "e", "s">>, <<"s", "t", "r", "i", "n", "g", "s">>} -> "strings"
      [] ToLower(name) \in {<<"n", "t", "s", "t", "r">>, <<"n", "t", "s", "t", "r", "i", "n", "g", "s">>, <<"n", "t", "s", "t", "r", "i", "n", "g">>, <<"n", "t", "s">>} -> "NTStr"
      [] OTHER -> "none"

\* The characters after the last dot of the last path element, in lower case.
Suffix(fileName) ==
    IF \E i \in DOMAIN fileName : fileName[i] = "."
    THEN ToLower(SubSeq(fileName,
                        1 + CHOOSE i \in DOMAIN fileName :
                                /\ fileName[i] = "."
                                /\ \A j \in (i + 1)..Len(fileName) : fileName[j] # ".",
                        Len(fileName)))
    ELSE <<"/">>

\* The format the extension of a file name designates.
InferredFormat(fileName) ==
    CASE Suffix(fileName) = <<"j", "s", "o", "n">> -> "JSON"
      [] Suffix(fileName) \in {<<"y", "a", "m", "l">>, <<"y", "m", "l">>} -> "YAML"
      [] Suffix(fileName) \in {<<"t", "o", "m", "l">>, <<"t", "m", "l">>} -> "TOML"
      [] Suffix(fileName) = <<"i", "n", "i">> -> "INI"
      [] OTHER -> "none"

\* The format a format name, or 'auto' and a file name, designates.
Designated(name, fileName) ==
    IF name = <<"a", "u", "t", "o">> THEN InferredFormat(fileName) ELSE NamedFormat(name)

TypeOf(designated) ==
    CASE designated = "JSON" -> "JSONFormat"
      [] designated = "YAML" -> "YAMLFormat"
      [] designated = "TOML" -> "TOMLFormat"
      [] designated = "INI" -> "INIFormat"
      [] OTHER -> "TextFormat"

GotFormat(r) == ~r.exited /\ r.err = "nil" /\ r.format # NoFormat
GotError(r) == ~r.exited /\ r.err # "nil" /\ r.format = NoFormat

\* C9: NewOutputFormat returns an output format exactly when the format name,
\* or for 'auto' the extension of the file name, designates JSON, YAML or TOML,
\* and it is then that format; for INI, strings, null-terminated strings and
\* CSF, for an unknown name and for 'auto' with an extension that designates
\* nothing it returns an error and no format.  NewInputFormat returns no error
\* for JSON, YAML, TOML, INI, strings and CSF, and returns the format unless a
\* delimiter label of CSF is unknown.
C9_OutputOnlyJsonYamlToml ==
    /\ pc = "output format" =>
        /\ GotFormat(outputFormat) \/ GotError(outputFormat)
        /\ GotFormat(outputFormat)
              <=> Designated(outputType, output) \in {"JSON", "YAML", "TOML"}
        /\ GotFormat(outputFormat) =>
              /\ outputFormat.format.type = TypeOf(Designated(outputType, output))
              /\ outputFormat.format.type \in Marshalers
              /\ outputFormat.format.PrettyPrint = prettyPrint
    /\ pc = "input format" =>
        /\ NamedFormat(inputType) \in {"JSON", "YAML", "TOML", "INI", "strings", "CSF"} =>
              /\ inputFormat.err = "nil"
              /\ ~inputFormat.exited =>
                    /\ GotFormat(inputFormat)
                    /\ inputFormat.format.type = TypeOf(NamedFormat(inputType))
              /\ inputFormat.exited =>
                    /\ NamedFormat(inputType) = "CSF"
                    /\ ~normalizeDelim(fieldDelim).ok \/ ~normalizeDelim(recordDelim).ok
                    /\ inputFormat.code = exitConfigurationError

\* INI has been asked for as the output format and an error came back.
C9_Witness ==
    /\ pc = "output format"
    /\ outputType = <<"i", "n", "i">>
    /\ GotError(outputFormat)

(***************************************************************************)
(* ConvertStream, a step for each stage.  What a library decoder or        *)
(* encoder makes of its input, and how many bytes a writer takes, are      *)
(* inputs of the steps.                                                    *)
(***************************************************************************)
Strings(strs) == [t |-> "strings", strs |-> strs]

\* What a decoder may hand back from a well-formed input.
Documents ==
    { Nil, StrS, Slice(<<Nil, Int1>>), Slice(<<Str1, StrS>>),
      Map((StrA :> Nil) @@ (StrC :> Int1)), Strings(<<<<"1">>, <<"s">>>>) }

\* informat.Unmarshal(reader): a document, or nil and an error.
UnmarshalResults ==
    {Return(d, "nil") : d \in Documents}
        \cup {Return(Nil, "read error"), Return(Nil, "syntax error")}

\* The encoded form of a value: the document and the line end after it.
Encoding(f, val) ==
    << [part |-> "document", syntax |-> f.type, of |-> val],
       [part |-> "line end", syntax |-> f.type, of |-> Nil] >>

\* A file of the file system: whether it exists, and its content, one cell a
\* chunk of bytes of one size.
File(exists, cells) == [exists |-> exists, content |-> cells]

\* The longest content the output file has before the run, in cells.
MaxOldLen == 3

\* A cell left by an earlier writer of the file.
OldCell == [part |-> "old content", syntax |-> "any", of |-> Nil]

\* The output file before the run: absent, or present with any content.
OutputFiles ==
    {File(FALSE, <<>>)} \cup {File(TRUE, [k \in 1..n |-> OldCell]) : n \in 0..MaxOldLen}

\* os.OpenFile(outfile, os.O_WRONLY|os.O_CREATE, 0640) without an error: the file
\* is created empty when absent, and keeps its content when present.
OpenFile(f) == IF f.exists THEN f ELSE File(TRUE, <<>>)

\* file.Write(b) at position at: the cells of b replace those from at + 1 on, the
\* file growing where b reaches past its end; the cells after them stay.
WriteAt(f, at, b) ==
    [f EXCEPT !.content =
        SubSeq(f.content, 1, at) \o b \o SubSeq(f.content, at + Len(b) + 1, Len(f.content))]

Stage(stage, e) == [stage |-> stage, err |-> e]

\* A ConvertStream that goes on to the transformer after a failed decode.
AfterUnmarshalGoesOn(e) == "Transform"

\* if err != nil { return err } after informat.Unmarshal
AfterUnmarshal(e) == IF e # "nil" THEN "returned" ELSE "Transform"

IsPanic(e) == e = "panic: interface conversion"

\* data, err := informat.Unmarshal(reader)
Unmarshal ==
    /\ pc = "Unmarshal"
    /\ \E r \in UnmarshalResults :
        /\ data' = r.value
        /\ trace' = Append(trace, Stage("decode", r.err))
        /\ pc' = AfterUnmarshal(r.err)
        /\ returned' = IF AfterUnmarshal(r.err) = "returned" THEN r.err ELSE returned
    /\ UNCHANGED <<transformer, result, again, transformed, bytes, written, reader,
                   writer, exitCode, optionVars, formatVars, numberVars, pipelineVars,
                   yamlVars, fileVars, adapterVars>>

\* transformed = data, without a transformer
SkipTransform ==
    /\ pc = "Transform"
    /\ transformer = NilTransformer
    /\ transformed' = data
    /\ pc' = "Marshal"
    /\ UNCHANGED <<data, transformer, result, again, bytes, written, reader, writer,
                   trace, returned, exitCode, optionVars, formatVars, numberVars,
                   pipelineVars, yamlVars, fileVars, adapterVars>>

\* transformed, err = transformer.Transform(data), r being what it returned; a
\* panic of the transformer unwinds ConvertStream.
TransformReturned(r) ==
    /\ trace' = Append(trace, Stage("transform", r.err))
    /\ IF IsPanic(r.err)
       THEN pc' = "panicked" /\ UNCHANGED <<transformed, returned>>
       ELSE /\ transformed' = r.value
            /\ IF r.err # "nil"
               THEN pc' = "returned" /\ returned' = r.err
               ELSE pc' = "Marshal" /\ UNCHANGED returned

TransformData ==
    /\ pc = "Transform"
    /\ transformer # NilTransformer
    /\ TransformReturned(Transform(transformer, data))
    /\ UNCHANGED <<data, transformer, result, again, bytes, written, reader, writer,
                   exitCode, optionVars, formatVars, numberVars, pipelineVars, yamlVars, fileVars, adapterVars>>

\* outformat.Marshal(transformed, writer), its encoding into the buffer
Encode ==
    /\ pc = "Marshal"
    /\ \E ok \in BOOLEAN :
        IF ok
        THEN /\ bytes' = Encoding(outputFormat.format, transformed)
             /\ trace' = Append(trace, Stage("encode", "nil"))
             /\ pc' = "Write"
             /\ UNCHANGED returned
        ELSE /\ trace' = Append(trace, Stage("encode", "encode error"))
             /\ returned' = "encode error"
             /\ pc' = "returned"
             /\ UNCHANGED bytes
    /\ UNCHANGED <<data, transformer, result, again, transformed, written, reader,
                   writer, exitCode, optionVars, formatVars, numberVars, pipelineVars,
                   yamlVars, fileVars, adapterVars>>

\* outformat.Marshal(transformed, writer), its w.Write(bytes): the writer takes
\* all of the buffer, or less and returns an error; the output file of
\* ConvertFile takes them at its write position.
Write ==
    /\ pc = "Write"
    /\ \E taken \in 0..Len(bytes) :
        /\ written' = written \o SubSeq(bytes, 1, taken)
        /\ IF writer = "file"
           THEN /\ outputFile' = WriteAt(outputFile, offset, SubSeq(bytes, 1, taken))
                /\ offset' = offset + taken
           ELSE UNCHANGED fileVars
        /\ trace' = Append(trace, Stage("write",
                        IF taken = Len(bytes) THEN "nil" ELSE "write error"))
        /\ returned' = IF taken = Len(bytes) THEN "nil" ELSE "write error"
    /\ pc' = "returned"
    /\ UNCHANGED <<data, transformer, result, again, transformed, bytes, reader,
                   writer, exitCode, optionVars, formatVars, numberVars, pipelineVars,
                   yamlVars, adapterVars>>

\* The transformers a caller may hand to ConvertStream.
StreamTransformers ==
    { NilTransformer, NopTransformer, OkStub, FailingStub,
      NewConfigurableTransformer(Named("StringToFiniteNumberParser"),
                                 NilFunc, NilFunc, NilFunc, NilFunc),
      NewMultiTransformer(<<NopTransformer,
          [kind |-> "NilRemovalTransformer", RemoveNilKeys |-> FALSE,
           RemoveNilValues |-> TRUE, RemoveNilElements |-> TRUE]>>),
      NewMultiTransformer(<<OkStub, FailingStub, OkStub>>) }

InputFormats ==
    { JSONFormat(FALSE), YAMLFormat(FALSE), TOMLFormat(FALSE), INIFormat(FALSE),
      TextFormat(<<>>, <<",">>) }

OutputFormats == { JSONFormat(FALSE), YAMLFormat(TRUE), TOMLFormat(FALSE) }

StreamInit ==
    /\ pc = "Unmarshal"
    /\ inputFormat \in {Returned(f, "nil") : f \in InputFormats}
    /\ outputFormat \in {Returned(f, "nil") : f \in OutputFormats}
    /\ transformer \in StreamTransformers
    /\ reader = "reader"
    /\ writer = "writer"
    /\ data = None
    /\ transformed = None
    /\ bytes = None
    /\ written = <<>>
    /\ trace = <<>>
    /\ returned = None
    /\ exitCode = None
    /\ result = None /\ again = None
    /\ OptionsIdle
    /\ NumberIdle /\ PipelineIdle /\ YamlIdle /\ FileIdle
    /\ AdapterIdle

StreamNext == Unmarshal \/ SkipTransform \/ TransformData \/ Encode \/ Write

SpecStream == StreamInit /\ [][StreamNext]_vars

(***************************************************************************)
(* Claims about ConvertStream                                              *)
(***************************************************************************)
StageOrder == <<"decode", "transform", "encode", "write">>

Position(stage) == CHOOSE i \in DOMAIN StageOrder : StageOrder[i] = stage

Ran(stage) == \E k \in DOMAIN trace : trace[k].stage = stage

Succeeded(stage) == \E k \in DOMAIN trace : trace[k] = Stage(stage, "nil")

\* The transformer succeeded, or there is none to run.
TransformPassed ==
    IF transformer = NilTransformer THEN ~Ran("transform") ELSE Succeeded("transform")

\* The error of the first stage that failed, "nil" when none has.
FirstError ==
    IF \E k \in DOMAIN trace : trace[k].err # "nil"
    THEN trace[CHOOSE k \in DOMAIN trace :
                   trace[k].err # "nil" /\ \A j \in 1..(k - 1) : trace[j].err = "nil"].err
    ELSE "nil"

\* C6: ConvertStream runs decode, transform and encode in this order and each at
\* most once; the transformer runs only after a successful decode, the encoder
\* only after a successful decode and transform; no stage runs after one that
\* failed, and what ConvertStream returns is that stage's error as the stage
\* returned it, or no error when every stage succeeded; the output writer has
\* received no byte unless decode, transform and encode have all succeeded.
C6_StagesInOrderNoPartialOutput ==
    pc \in {"Unmarshal", "Transform", "Marshal", "Write", "returned", "panicked"} =>
        /\ \A k \in DOMAIN trace :
            /\ trace[k].stage \in {"decode", "transform", "encode", "write"}
            /\ \A j \in 1..(k - 1) :
                /\ Position(trace[j].stage) < Position(trace[k].stage)
                /\ trace[j].err = "nil"
        /\ Ran("transform") => Succeeded("decode") /\ transformer # NilTransformer
        /\ Ran("encode") => Succeeded("decode") /\ TransformPassed
        /\ Ran("write") => Succeeded("encode")
        /\ written # <<>> =>
              Succeeded("decode") /\ TransformPassed /\ Succeeded("encode")
        /\ pc = "returned" =>
              /\ returned = FirstError
              /\ returned = "nil" =>
                    /\ Succeeded("decode") /\ TransformPassed /\ Succeeded("encode")
                    /\ written = Encoding(outputFormat.format, transformed)
        /\ pc # "returned" => returned = None

\* ConvertStream has returned the error of a transformer that failed after a
\* successful decode: the encoder never ran and nothing was written.
C6_Witness ==
    /\ pc = "returned"
    /\ Succeeded("decode")
    /\ Ran("transform")
    /\ returned = "stage failed"
    /\ ~Ran("encode")
    /\ written = <<>>

(***************************************************************************)
(* dfmt convert and dfmt remove-nulls: the Action of the command, from     *)
(* configureFormats through ConvertFile and ConvertStream to the exit.     *)
(***************************************************************************)
\* exit(code, message)
Exit(code) == pc' = "exited" /\ exitCode' = code

\* The transformer of configureFormats.
DefaultTransformer(number, name) ==
    IF number /\ (name = formatNameINI \/ name = formatNameCSF)
    THEN NewConfigurableTransformer(Named("StringToFiniteNumberParser"),
                                    NilFunc, NilFunc, NilFunc, NilFunc)
    ELSE NopTransformer

\* The transformer the Action of the command hands to ConvertFile.
CommandTransformer(t) ==
    IF command = "remove-nulls"
    THEN NewMultiTransformer(<<t, [kind |-> "NilRemovalTransformer",
                                   RemoveNilKeys |-> FALSE,
                                   RemoveNilValues |-> rmValues,
                                   RemoveNilElements |-> rmElements]>>)
    ELSE t

IsStandardStream(fileName) == fileName = <<>> \/ fileName = <<"-">>

CliInit ==
    /\ pc = "NewInputFormat"
    /\ command \in {"convert", "remove-nulls"}
    /\ inputType \in {<<"j","s","o","n">>, <<"c","s","f">>, <<"I","N","I">>,
                      <<"x","m","l">>, autoFormat}
    /\ outputType \in {<<"y","a","m","l">>, <<"i","n","i">>, autoFormat}
    /\ input \in {<<>>, <<"a",".","j","s","o","n">>, <<"a",".","t","x","t">>}
    /\ output \in {<<"-">>, <<"a",".","t","o","m","l">>}
    /\ fieldDelim \in {<<",">>, <<"X","X">>}
    /\ recordDelim = <<"N","L">>
    /\ prettyPrint = FALSE
    /\ stringToJSONNumber \in BOOLEAN
    /\ IF command = "remove-nulls"
       THEN rmValues \in BOOLEAN /\ rmElements \in BOOLEAN
       ELSE rmValues = FALSE /\ rmElements = FALSE
    /\ FormatsIdle
    /\ reader = None /\ writer = None
    /\ data = None /\ transformer = None /\ transformed = None /\ bytes = None
    /\ written = <<>>
    /\ trace = <<>>
    /\ returned = None
    /\ exitCode = None
    /\ result = None /\ again = None
    /\ outputFile \in (IF IsStandardStream(output) THEN {None} ELSE OutputFiles)
    /\ offset = None
    /\ NumberIdle /\ PipelineIdle /\ YamlIdle
    /\ AdapterIdle

\* configureFormats: inputFormat, err := NewInputFormat(...), r being the outcome
InputConfigured(r) ==
    /\ inputFormat' = r
    /\ trace' = Append(trace, Stage("configure input",
                           IF r.exited THEN "unknown delimiter" ELSE r.err))
    /\ IF r.exited THEN Exit(r.code)
       ELSE IF r.err # "nil" THEN Exit(exitConfigurationError)
       ELSE pc' = "NewOutputFormat" /\ UNCHANGED exitCode

ConfigureInput ==
    /\ pc = "NewInputFormat"
    /\ InputConfigured(NewInputFormat(input, inputType, fieldDelim, recordDelim))
    /\ UNCHANGED <<outputFormat, optionVars, reader, writer, transformed, bytes,
                   written, returned, transformVars, numberVars, pipelineVars, yamlVars, fileVars, adapterVars>>

\* configureFormats: outputFormat, err := NewOutputFormat(...), and the transformer
OutputConfigured(r) ==
    /\ outputFormat' = r
    /\ trace' = Append(trace, Stage("configure output",
                           IF r.exited THEN "unknown delimiter" ELSE r.err))
    /\ IF r.exited THEN Exit(r.code) /\ UNCHANGED transformer
       ELSE IF r.err # "nil" THEN Exit(exitConfigurationError) /\ UNCHANGED transformer
       ELSE /\ pc' = "ConvertFile"
            /\ transformer' = CommandTransformer(
                   DefaultTransformer(stringToJSONNumber, Name(inputFormat.format)))
            /\ UNCHANGED exitCode

ConfigureOutput ==
    /\ pc = "NewOutputFormat"
    /\ OutputConfigured(NewOutputFormat(output, outputType, prettyPrint))
    /\ UNCHANGED <<inputFormat, optionVars, reader, writer, transformed, bytes,
                   written, returned, data, result, again, numberVars, pipelineVars,
                   yamlVars, fileVars, adapterVars>>

\* ConvertFile: the reader is os.Stdin or the input file, which may fail to open.
OpenInput ==
    /\ pc = "ConvertFile"
    /\ \E opened \in BOOLEAN :
        IF IsStandardStream(input) \/ opened
        THEN /\ reader' = IF IsStandardStream(input) THEN "os.Stdin" ELSE "file"
             /\ pc' = "open output"
             /\ UNCHANGED <<trace, returned>>
        ELSE /\ trace' = Append(trace, Stage("open input", "open error"))
             /\ returned' = "open error"
             /\ pc' = "returned"
             /\ UNCHANGED reader
    /\ UNCHANGED <<writer, transformed, bytes, written, exitCode, optionVars,
                   formatVars, transformVars, numberVars, pipelineVars, yamlVars, fileVars, adapterVars>>

\* ConvertFile: the writer is os.Stdout or the output file, which may fail to open.
OpenOutput ==
    /\ pc = "open output"
    /\ \E opened \in BOOLEAN :
        IF IsStandardStream(output) \/ opened
        THEN /\ writer' = IF IsStandardStream(output) THEN "os.Stdout" ELSE "file"
             /\ IF IsStandardStream(output)
                THEN UNCHANGED fileVars
                ELSE outputFile' = OpenFile(outputFile) /\ offset' = 0
             /\ pc' = "Unmarshal"
             /\ UNCHANGED <<trace, returned>>
        ELSE /\ trace' = Append(trace, Stage("open output", "open error"))
             /\ returned' = "open error"
             /\ pc' = "returned"
             /\ UNCHANGED <<writer, fileVars>>
    /\ UNCHANGED <<reader, transformed, bytes, written, exitCode, optionVars,
                   formatVars, transformVars, numberVars, pipelineVars, yamlVars, adapterVars>>

\* The Action after ConvertFile: if err != nil { exit(exitTransformError, ...) };
\* without an error the Action returns and the process ends with exitNoError.
ActionExit ==
    /\ pc = "returned"
    /\ Exit(IF returned # "nil" THEN exitTransformError ELSE exitNoError)
    /\ UNCHANGED <<reader, writer, transformed, bytes, written, trace, returned,
                   optionVars, formatVars, transformVars, numberVars, pipelineVars,
                   yamlVars, fileVars, adapterVars>>

\* configureFormats hands ConvertFile a transformer that is never nil: the branch
\* of ConvertStream without a transformer is not taken in a run of the commands.
CliNext ==
    \/ ConfigureInput \/ ConfigureOutput \/ OpenInput \/ OpenOutput
    \/ Unmarshal \/ TransformData \/ Encode \/ Write
    \/ ActionExit

SpecCli == CliInit /\ [][CliNext]_vars

(***************************************************************************)
(* Claims about the exit code                                              *)
(***************************************************************************)
Failed(stage) == \E k \in DOMAIN trace : trace[k].stage = stage /\ trace[k].err # "nil"

ConfigurationFailed == Failed("configure input") \/ Failed("configure output")
InputFailed == Failed("open input") \/ Failed("decode")
TransformFailed == Failed("transform")
OutputFailed == Failed("open output") \/ Failed("encode") \/ Failed("write")

\* C8: the exit code of a convert or remove-nulls run is 0 when nothing failed,
\* 1 when reading or decoding the input failed, 2 when encoding or writing the
\* output failed, 4 when a transformer failed and 32 when the configuration was
\* invalid.
C8_ExitCodeIdentifiesFailure ==
    pc = "exited" =>
        exitCode = IF ConfigurationFailed THEN exitConfigurationError
                   ELSE IF InputFailed THEN exitInputError
                   ELSE IF TransformFailed THEN exitTransformError
                   ELSE IF OutputFailed THEN exitOutputError
                   ELSE exitNoError

\* What the runs do: every error of ConvertFile, of whatever stage, ends the
\* process with exitTransformError.
C8_EveryConvertErrorExitsWithTransformError ==
    pc = "exited" =>
        exitCode = IF ConfigurationFailed THEN exitConfigurationError
                   ELSE IF InputFailed \/ TransformFailed \/ OutputFailed
                        THEN exitTransformError
                   ELSE exitNoError

\* A run whose input could not be decoded has exited with exitTransformError.
C8_DecodeFailureExitsWithTransformError ==
    /\ pc = "exited"
    /\ Failed("decode")
    /\ exitCode = exitTransformError

(***************************************************************************)
(* YAMLFormat.Unmarshal, a step for each pass of its loop.                 *)
(***************************************************************************)
MaxDocs == 4

\* A document of the stream without content, as between two "---" lines.
EmptyDocument == [t |-> "empty document"]

StreamDocuments == {EmptyDocument, StrS, Slice(<<Int1>>), Map((StrA :> StrS))}

\* A YAML stream: its documents, and whether malformed text follows them.
YamlStreams ==
    {[docs |-> ds, malformed |-> m] : ds \in SeqsUpTo(StreamDocuments, MaxDocs),
                                      m \in BOOLEAN}

\* What decoder.Decode(&document) stores in the fresh, nil document.
Decoded(d) == IF d = EmptyDocument THEN Nil ELSE d

\* An Unmarshal that returns the list of documents whatever its length.
DocumentsAlwaysListed(docs) == Slice(docs)

\* if len(documents) == 1 { return documents[0], nil } else { return documents, nil }
DocumentsReturned(docs) == IF Len(docs) = 1 THEN At(docs, 0) ELSE Slice(docs)

YamlInit ==
    /\ pc = "Decode"
    /\ reader \in YamlStreams
    /\ decoder = reader
    /\ documents = <<>>
    /\ document = Nil
    /\ result = None
    /\ inputFormat = Returned(YAMLFormat(FALSE), "nil")
    /\ outputFormat = None
    /\ OptionsIdle
    /\ writer = None /\ transformed = None /\ bytes = None /\ written = None
    /\ trace = None /\ returned = None /\ exitCode = None
    /\ data = None /\ transformer = None /\ again = None
    /\ NumberIdle /\ PipelineIdle /\ FileIdle
    /\ AdapterIdle

\* var document interface{}; decoder.Decode(&document) without an error;
\* documents = append(documents, document)
DecodeDocument ==
    /\ pc = "Decode"
    /\ decoder.docs # <<>>
    /\ document' = Decoded(Head(decoder.docs))
    /\ documents' = Append(documents, Decoded(Head(decoder.docs)))
    /\ decoder' = [decoder EXCEPT !.docs = Tail(decoder.docs)]
    /\ UNCHANGED <<pc, result, data, transformer, again, reader, writer, transformed,
                   bytes, written, trace, returned, exitCode, optionVars, formatVars,
                   numberVars, pipelineVars, fileVars, adapterVars>>

\* decoder.Decode returns an error that is not io.EOF: return nil, err
DecodeFails ==
    /\ pc = "Decode"
    /\ decoder.docs = <<>>
    /\ decoder.malformed
    /\ result' = Return(Nil, "yaml: syntax error")
    /\ pc' = "returned"
    /\ UNCHANGED <<data, transformer, again, streamVars, optionVars, formatVars,
                   numberVars, pipelineVars, yamlVars, fileVars, adapterVars>>

\* decoder.Decode returns io.EOF: break, and the return after the loop
DecodeEnds ==
    /\ pc = "Decode"
    /\ decoder.docs = <<>>
    /\ ~decoder.malformed
    /\ result' = Return(DocumentsReturned(documents), "nil")
    /\ pc' = "returned"
    /\ UNCHANGED <<data, transformer, again, streamVars, optionVars, formatVars,
                   numberVars, pipelineVars, yamlVars, fileVars, adapterVars>>

YamlNext == DecodeDocument \/ DecodeFails \/ DecodeEnds

SpecYaml == YamlInit /\ [][YamlNext]_vars

(***************************************************************************)
(* Claims about YAML streams                                               *)
(***************************************************************************)
\* The value the claim gives the k-th document of the stream.
DocumentValue(k) ==
    IF reader.docs[k] = EmptyDocument THEN Nil ELSE reader.docs[k]

\* C10: decoding a well-formed YAML stream of several documents returns a List
\* with one element per document, in the order of the stream, an empty document
\* being Null; decoding a stream of exactly one document returns that document
\* itself, not a list of it.
C10_YamlDocumentsFlattened ==
    (pc = "returned" /\ ~reader.malformed) =>
        /\ result.err = "nil"
        /\ Len(reader.docs) > 1 =>
            /\ result.value.t = "slice"
            /\ Len(result.value.elems) = Len(reader.docs)
            /\ \A k \in DOMAIN reader.docs : result.value.elems[k] = DocumentValue(k)
        /\ Len(reader.docs) = 1 => result.value = DocumentValue(1)

\* The stream of TestYamlToJson in shape: four documents, the third empty, has
\* been decoded into a list of four whose third element is Null.
C10_Witness ==
    /\ pc = "returned"
    /\ ~reader.malformed
    /\ Len(reader.docs) = 4
    /\ reader.docs[3] = EmptyDocument
    /\ reader.docs[1] # EmptyDocument
    /\ result.value.t = "slice"
    /\ Len(result.value.elems) = 4
    /\ result.value.elems[3] = Nil

(***************************************************************************)
(* TextFormat.Unmarshal: the delimited-text input adapter.  The input is a *)
(* short sequence of bytes; bufio.Scanner's limit on the length of a line  *)
(* (64 KiB, after which readLines returns bufio.ErrTooLong) is far above   *)
(* MaxBytes and no step here fails.                                        *)
(***************************************************************************)
NilStrings == [t |-> "nilstrings"]

\* strings.Index(str, sep) + 1, or 0 when sep does not occur in str.
Index(str, sep) ==
    LET at == { i \in 1..(Len(str) - Len(sep) + 1) : SubSeq(str, i, i + Len(sep) - 1) = sep }
    IN IF at = {} THEN 0 ELSE CHOOSE i \in at : \A j \in at : i <= j

\* strings.Split(str, sep) for a non-empty sep.
RECURSIVE SplitFrom(_, _, _)
SplitFrom(str, sep, i) ==
    IF i = 0 THEN <<str>>
    ELSE <<SubSeq(str, 1, i - 1)>> \o
         SplitFrom(SubSeq(str, i + Len(sep), Len(str)), sep,
                   Index(SubSeq(str, i + Len(sep), Len(str)), sep))

readSeparatedStrings(bytesRead, separator) == SplitFrom(bytesRead, separator, Index(bytesRead, separator))

\* bufio.ScanLines: dropCR on a token.
dropCR(line) ==
    IF Len(line) > 0 /\ line[Len(line)] = CrChar THEN SubSeq(line, 1, Len(line) - 1) ELSE line

\* The tokens bufio.ScanLines cuts: up to each "\n", and the rest of the data at
\* the end of the input when it is not empty; each without one trailing "\r".
ScanLines(parts) ==
    LET tokens == IF parts[Len(parts)] = <<>> THEN SubSeq(parts, 1, Len(parts) - 1) ELSE parts
    IN [i \in 1..Len(tokens) |-> dropCR(tokens[i])]

\* mutant of DropLastEmpty: the trailing empty record is left in.
KeepLastEmpty(recs) == recs

\* records[0 : len(records)-1] when the last record is empty.
DropLastEmpty(recs) ==
    IF Len(recs) > 0 /\ Len(recs[Len(recs)]) = 0 THEN SubSeq(recs, 1, Len(recs) - 1) ELSE recs

\* readLines: lines is declared nil and appended to once for each token, so that
\* it is still nil when the scanner has cut no token.
LinesOf(tokens) == IF Len(tokens) = 0 THEN NilStrings ELSE Strings(tokens)

readLines(bytesRead) == LinesOf(ScanLines(readSeparatedStrings(bytesRead, <<LfChar>>)))

\* len(records) and range records, on the nil and the non-nil []string.
StringsOf(recs) == IF recs.t = "nilstrings" THEN <<>> ELSE recs.strs

\* parsedFields of one record.
ParsedFields(fields) == Slice([i \in 1..Len(fields) |-> Str(fields[i])])

MaxBytes == 4
TextAlphabet == {"a", ",", "|", LfChar, CrChar}
RECURSIVE BytesUpTo(_)
BytesUpTo(len) ==
    IF len = 0 THEN {<<>>}
    ELSE BytesUpTo(len - 1) \cup
         { Append(b, c) : b \in { x \in BytesUpTo(len - 1) : Len(x) = len - 1 }, c \in TextAlphabet }
TextFormats ==
    { NewTextFormat(r, f).format : r \in {<<"N", "L">>, <<"L", "F">>, <<"|">>}, f \in {<<>>, <<",">>} }

TextInit ==
    /\ pc = "text:ReadAll"
    /\ receiver \in TextFormats
    /\ content \in BytesUpTo(MaxBytes)
    /\ records = None /\ decoded = None
    /\ file = None /\ ndata = None /\ delimLabel = None /\ delim = None
    /\ selected = None /\ kept = None /\ events = None /\ stack = None
    /\ NumberIdle /\ TransformIdle /\ PipelineIdle /\ ConvertIdle /\ YamlIdle /\ FileIdle

\* records, err = readLines(bytes)
ReadLines ==
    /\ pc = "text:ReadAll"
    /\ receiver.RecordDelimiter = <<>>
    /\ records' = readLines(content)
    /\ pc' = "text:records"
    /\ UNCHANGED <<receiver, content, decoded, file, ndata, delimLabel, delim, selected, kept,
                   events, stack, numberVars, transformVars, pipelineVars, convertVars, yamlVars, fileVars>>

\* records = readSeparatedStrings(bytes, f.RecordDelimiter), less an empty last one
ReadSeparated ==
    /\ pc = "text:ReadAll"
    /\ receiver.RecordDelimiter # <<>>
    /\ records' = Strings(DropLastEmpty(readSeparatedStrings(content, receiver.RecordDelimiter)))
    /\ pc' = "text:records"
    /\ UNCHANGED <<receiver, content, decoded, file, ndata, delimLabel, delim, selected, kept,
                   events, stack, numberVars, transformVars, pipelineVars, convertVars, yamlVars, fileVars>>

\* return records, nil
ReturnRecords ==
    /\ pc = "text:records"
    /\ receiver.FieldDelimiter = <<>>
    /\ decoded' = Return(records, "nil")
    /\ pc' = "text:returned"
    /\ UNCHANGED <<receiver, content, records, file, ndata, delimLabel, delim, selected, kept,
                   events, stack, numberVars, transformVars, pipelineVars, convertVars, yamlVars, fileVars>>

\* data = make([]interface{}, 0, len(records)) and the loop over records
SplitFields ==
    /\ pc = "text:records"
    /\ receiver.FieldDelimiter # <<>>
    /\ decoded' = Return(Slice([i \in 1..Len(StringsOf(records)) |->
                        ParsedFields(readSeparatedStrings(StringsOf(records)[i],
                                                          receiver.FieldDelimiter))]), "nil")
    /\ pc' = "text:returned"
    /\ UNCHANGED <<receiver, content, records, file, ndata, delimLabel, delim, selected, kept,
                   events, stack, numberVars, transformVars, pipelineVars, convertVars, yamlVars, fileVars>>

TextNext == ReadLines \/ ReadSeparated \/ ReturnRecords \/ SplitFields

SpecText == TextInit /\ [][TextNext]_vars

\* The separator-joined text of some strings.
RECURSIVE Join(_, _)
Join(strs, sep) ==
    IF Len(strs) = 0 THEN <<>>
    ELSE IF Len(strs) = 1 THEN strs[1]
    ELSE strs[1] \o sep \o Join(Tail(strs), sep)

EndsWith(str, sep) ==
    Len(str) >= Len(sep) /\ SubSeq(str, Len(str) - Len(sep) + 1, Len(str)) = sep

\* recs are the records of text: none holds the delimiter, an empty text has no
\* record, and the records joined by the delimiter are the text, less the one
\* delimiter it may end with.
RecordsOf(recs, text, sep) ==
    /\ \A i \in 1..Len(recs) : Index(recs[i], sep) = 0
    /\ IF text = <<>> THEN recs = <<>>
       ELSE IF EndsWith(text, sep) THEN Join(recs, sep) \o sep = text
       ELSE Join(recs, sep) = text

\* The records of the input, by the record delimiter of the format: a line ends at
\* the line feed, and the carriage return before it is not part of the line.
InputRecords(recs) ==
    IF receiver.RecordDelimiter = <<>>
    THEN \E cr \in [1..Len(recs) -> BOOLEAN] :
            /\ RecordsOf([i \in 1..Len(recs) |-> IF cr[i] THEN recs[i] \o <<CrChar>> ELSE recs[i]],
                         content, <<LfChar>>)
            /\ \A i \in 1..Len(recs) : EndsWith(recs[i], <<CrChar>>) => cr[i]
    ELSE RecordsOf(recs, content, receiver.RecordDelimiter)

IsListOfStrings(val) == val.t = "slice" /\ \A i \in 1..Len(val.elems) : val.elems[i].t = "string"

IsListOfLists(val) == val.t = "slice" /\ \A i \in 1..Len(val.elems) : IsListOfStrings(val.elems[i])

FieldsOf(val) == [i \in 1..Len(val.elems) |-> val.elems[i].str]

\* The record each entry of a List of Lists of Strings stands for.
RejoinedRecords(val, sep) == [i \in 1..Len(val.elems) |-> Join(FieldsOf(val.elems[i]), sep)]

TextReturned == pc = "text:returned"

\* C11: delimited-text decoding yields one entry per record of the input, in
\* order, and a single trailing record delimiter gives no extra record; with a
\* field delimiter the entries are the Lists of the records' fields, without one
\* the result is the flat list of the record Strings, for the empty input too.
C11_TextDecodingYieldsRecords ==
    TextReturned =>
        /\ decoded.err = "nil"
        /\ IF receiver.FieldDelimiter = <<>>
           THEN /\ decoded.value.t = "strings"
                /\ InputRecords(decoded.value.strs)
           ELSE /\ IsListOfLists(decoded.value)
                /\ \A i \in 1..Len(decoded.value.elems) :
                      /\ Len(decoded.value.elems[i].elems) > 0
                      /\ \A j \in 1..Len(decoded.value.elems[i].elems) :
                            Index(decoded.value.elems[i].elems[j].str, receiver.FieldDelimiter) = 0
                /\ InputRecords(RejoinedRecords(decoded.value, receiver.FieldDelimiter))

\* The empty input read as lines: readLines returns the nil []string, and
\* Unmarshal hands on a nil list where the lists of every other input are not nil.
C11_EmptyLinesDecodeToNil ==
    /\ TextReturned
    /\ content = <<>>
    /\ receiver.RecordDelimiter = <<>> /\ receiver.FieldDelimiter = <<>>
    /\ decoded.value = NilStrings
    /\ isNil(decoded.value)

\* What does hold of the adapter: the statement of C11 on every input but the
\* empty one read as lines without a field delimiter.
C11_HoldsButForEmptyLines ==
    (TextReturned /\ ~C11_EmptyLinesDecodeToNil) => C11_TextDecodingYieldsRecords

(***************************************************************************)
(* INIFormat.Unmarshal: the INI input adapter.  The parser is the go-ini   *)
(* library; what it is given here is the document it has read, as the      *)
(* entries before the first section header and the named sections in       *)
(* order, and what it returns is the list File.Sections(): the default     *)
(* section first, named ini.DefaultSection, then the named sections, with  *)
(* a section whose header is the default section's name being that         *)
(* section.  InsensitiveLoad lowers section names and keys, the default    *)
(* section's name included.                                                *)
(***************************************************************************)
iniDefaultSection == <<"D", "E", "F", "A", "U", "L", "T">>

WhiteSpace == {" ", TabChar, LfChar, CrChar}

\* strings.TrimSpace
TrimSpace(str) ==
    LET solid == { i \in 1..Len(str) : str[i] \notin WhiteSpace }
    IN IF solid = {} THEN <<>>
       ELSE SubSeq(str, CHOOSE i \in solid : \A j \in solid : i <= j,
                        CHOOSE i \in solid : \A j \in solid : i >= j)

\* mutant of NonemptyDefaultKey: an empty key is handed on.
DefaultKeyAsGiven(key) == TrimSpace(key)

NonemptyDefaultKey(key) == IF TrimSpace(key) = <<>> THEN <<"_">> ELSE TrimSpace(key)

\* A name as the parser keeps it.
Fold(str, insensitive) == IF insensitive THEN ToLower(str) ELSE str

FoldKeys(entries, insensitive) ==
    [k \in { Fold(x, insensitive) : x \in DOMAIN entries } |->
        entries[CHOOSE x \in DOMAIN entries : Fold(x, insensitive) = k]]

\* Keys set again in a section of the same name take the later value.
MergeKeys(base, over) ==
    [k \in (DOMAIN base) \cup (DOMAIN over) |-> IF k \in DOMAIN over THEN over[k] ELSE base[k]]

Section(name, keys) == [Name |-> name, KeysHash |-> keys]

RECURSIVE DefaultKeysHash(_, _, _)
DefaultKeysHash(keys, named, insensitive) ==
    IF named = <<>> THEN keys
    ELSE DefaultKeysHash(
            IF Fold(Head(named).Name, insensitive) = Fold(iniDefaultSection, insensitive)
            THEN MergeKeys(keys, FoldKeys(Head(named).KeysHash, insensitive)) ELSE keys,
            Tail(named), insensitive)

RECURSIVE NamedSections(_, _)
NamedSections(named, insensitive) ==
    IF named = <<>> THEN <<>>
    ELSE IF Fold(Head(named).Name, insensitive) = Fold(iniDefaultSection, insensitive)
         THEN NamedSections(Tail(named), insensitive)
         ELSE <<Section(Fold(Head(named).Name, insensitive),
                        FoldKeys(Head(named).KeysHash, insensitive))>>
              \o NamedSections(Tail(named), insensitive)

\* File.Sections() after ini.Load (insensitive FALSE) or ini.InsensitiveLoad.
Sections(doc, insensitive) ==
    <<Section(Fold(iniDefaultSection, insensitive),
              DefaultKeysHash(FoldKeys(doc.defaults, insensitive), doc.named, insensitive))>>
    \o NamedSections(doc.named, insensitive)

\* data[name] = make(map[string]interface{}) and the copy of the section's keys
SetSection(acc, name, keys) ==
    [x \in (DOMAIN acc) \cup {name} |-> IF x = name THEN keys ELSE acc[x]]

\* The loop over file.Sections().
RECURSIVE RangeSections(_, _, _)
RangeSections(sections, key, acc) ==
    IF sections = <<>> THEN acc
    ELSE IF Head(sections).Name = <<"d", "e", "f", "a", "u", "l", "t">>
         THEN IF DOMAIN Head(sections).KeysHash = {}
              THEN RangeSections(Tail(sections), key, acc)
              ELSE RangeSections(Tail(sections), key,
                                 SetSection(acc, NonemptyDefaultKey(key), Head(sections).KeysHash))
         ELSE RangeSections(Tail(sections), key,
                            SetSection(acc, Head(sections).Name, Head(sections).KeysHash))

\* A map[string]string or map[string]interface{} of strings, as a value.
StringMap(keys) == Map([k \in { Str(x) : x \in DOMAIN keys } |-> Str(keys[k.str])])

\* The map[string]map[string]interface{} Unmarshal returns, as a value.
SectionMap(acc) == Map([k \in { Str(x) : x \in DOMAIN acc } |-> StringMap(acc[k.str])])

MaxSections == 2
NoKeys == [x \in {} |-> <<>>]
KeysHashes ==
    { NoKeys, [x \in {<<"k">>} |-> <<"1">>], [x \in {<<"Q">>} |-> <<>>],
      [x \in {<<"k">>, <<"Q">>} |-> IF x = <<"k">> THEN <<"1">> ELSE <<>>] }
SectionNames == {<<"a">>, <<"B">>, <<"d", "e", "f", "a", "u", "l", "t">>}
SectionLists ==
    { l \in SeqsUpTo({ Section(x, h) : x \in SectionNames, h \in KeysHashes }, MaxSections) :
        \A i, j \in 1..Len(l) : i # j => l[i].Name # l[j].Name }
IniDocuments == { [defaults |-> d, named |-> l] : d \in KeysHashes, l \in SectionLists }
IniFormats ==
    { [INIFormat(c) EXCEPT !.DefaultKey = k] : c \in BOOLEAN, k \in {<<>>, <<"d">>, <<" ", "d">>} }

IniInit ==
    /\ pc = "ini:Load"
    /\ receiver \in IniFormats
    /\ content \in IniDocuments
    /\ file = None /\ decoded = None
    /\ records = None /\ ndata = None /\ delimLabel = None /\ delim = None
    /\ selected = None /\ kept = None /\ events = None /\ stack = None
    /\ NumberIdle /\ TransformIdle /\ PipelineIdle /\ ConvertIdle /\ YamlIdle /\ FileIdle

\* file, err = ini.Load(reader)
Load ==
    /\ pc = "ini:Load"
    /\ receiver.CaseSensitive
    /\ file' = Sections(content, FALSE)
    /\ pc' = "ini:Sections"
    /\ UNCHANGED <<receiver, content, records, decoded, ndata, delimLabel, delim, selected, kept,
                   events, stack, numberVars, transformVars, pipelineVars, convertVars, yamlVars, fileVars>>

\* file, err = ini.InsensitiveLoad(reader)
InsensitiveLoad ==
    /\ pc = "ini:Load"
    /\ ~receiver.CaseSensitive
    /\ file' = Sections(content, TRUE)
    /\ pc' = "ini:Sections"
    /\ UNCHANGED <<receiver, content, records, decoded, ndata, delimLabel, delim, selected, kept,
                   events, stack, numberVars, transformVars, pipelineVars, convertVars, yamlVars, fileVars>>

\* the loop over the sections and return data, nil
ReturnSections ==
    /\ pc = "ini:Sections"
    /\ decoded' = Return(SectionMap(RangeSections(file, receiver.DefaultKey, NoKeys)), "nil")
    /\ pc' = "ini:returned"
    /\ UNCHANGED <<receiver, content, records, file, ndata, delimLabel, delim, selected, kept,
                   events, stack, numberVars, transformVars, pipelineVars, convertVars, yamlVars, fileVars>>

IniNext == Load \/ InsensitiveLoad \/ ReturnSections

SpecIni == IniInit /\ [][IniNext]_vars

IniReturned == pc = "ini:returned"

\* How the configuration spells a name of the document.
Spelled(str) == Fold(str, ~receiver.CaseSensitive)

\* The section headers of the document that name a section of their own.
NamedHeaders ==
    { i \in 1..Len(content.named) : Spelled(content.named[i].Name) # Spelled(iniDefaultSection) }

\* The entries of the default section: those before any header, and those under
\* a header that names the default section.
DefaultEntries == DefaultKeysHash(FoldKeys(content.defaults, ~receiver.CaseSensitive), content.named, ~receiver.CaseSensitive)

ConfiguredDefaultKey ==
    IF TrimSpace(receiver.DefaultKey) = <<>> THEN <<"_">> ELSE TrimSpace(receiver.DefaultKey)

\* C12: INI decoding gives every named section, under its name, the Mapping of
\* its keys to their string values (empty for a section without entries), gives
\* the entries before any named section under the configured default key (_ when
\* none is configured), and has no entry for a default section without entries,
\* in the case-sensitive and in the case-insensitive configuration.
C12_IniSectionsToMappings ==
    IniReturned =>
        /\ decoded.err = "nil"
        /\ decoded.value.t = "map"
        /\ \A i \in NamedHeaders :
              /\ Str(Spelled(content.named[i].Name)) \in DOMAIN decoded.value.entries
              /\ decoded.value.entries[Str(Spelled(content.named[i].Name))]
                    = StringMap(FoldKeys(content.named[i].KeysHash, ~receiver.CaseSensitive))
        /\ DOMAIN DefaultEntries # {} =>
              /\ Str(ConfiguredDefaultKey) \in DOMAIN decoded.value.entries
              /\ decoded.value.entries[Str(ConfiguredDefaultKey)] = StringMap(DefaultEntries)
        /\ DOMAIN decoded.value.entries =
              { Str(Spelled(content.named[i].Name)) : i \in NamedHeaders }
              \cup (IF DOMAIN DefaultEntries # {} THEN {Str(ConfiguredDefaultKey)} ELSE {})

\* The case-sensitive configuration on a document with entries before its first
\* header: they are returned under DEFAULT, and nothing is under the default key.
C12_SensitiveDefaultSectionKeepsLibraryName ==
    /\ IniReturned
    /\ receiver.CaseSensitive
    /\ DOMAIN content.defaults # {}
    /\ Str(iniDefaultSection) \in DOMAIN decoded.value.entries
    /\ Str(ConfiguredDefaultKey) \notin DOMAIN decoded.value.entries

\* What does hold: the statement of C12 in the case-insensitive configuration,
\* the one NewFormat builds.
C12_HoldsWhenInsensitive ==
    (IniReturned /\ ~receiver.CaseSensitive) => C12_IniSectionsToMappings

(***************************************************************************)
(* TOMLFormat.Marshal: the TOML output adapter.  What the encoder makes of *)
(* ndata, and whether the writer takes the buffer, are inputs of the last  *)
(* step.                                                                   *)
(***************************************************************************)
\* map[string]interface{}{key: val}
SingleEntry(key, val) == Map([k \in {Str(key)} |-> val])

MarshalData ==
    { Nil, Int1, StrS, FloatInf(FALSE), Slice(<<>>), Slice(<<Int1, Nil>>), NilSlice,
      Strings(<<<<"a">>>>), NilStrings, Slice(<<Map([k \in {StrA} |-> Int1])>>),
      Map(<<>>), NilMap, Map([k \in {StrA} |-> Int1]), Map([k \in {Int1} |-> Nil]),
      Map([k \in {Str(<<"_">>)} |-> Slice(<<StrS>>)]) }
TomlFormats ==
    { [TOMLFormat(p) EXCEPT !.DefaultKey = k] : p \in BOOLEAN, k \in {<<>>, <<"d">>, <<" ", "d", " ">>, <<" ", TabChar>>} }

TomlInit ==
    /\ pc = "toml:Marshal"
    /\ receiver \in TomlFormats
    /\ data \in MarshalData
    /\ transformer = None /\ result = None /\ again = None
    /\ ndata = None /\ decoded = None
    /\ content = None /\ records = None /\ file = None /\ delimLabel = None /\ delim = None
    /\ selected = None /\ kept = None /\ events = None /\ stack = None
    /\ NumberIdle /\ PipelineIdle /\ ConvertIdle /\ YamlIdle /\ FileIdle

\* case reflect.Map, reflect.Struct: ndata = data
PassData ==
    /\ pc = "toml:Marshal"
    /\ Kind(data) \in {"Map", "Struct"}
    /\ ndata' = data
    /\ pc' = "toml:Encode"
    /\ UNCHANGED <<receiver, content, records, decoded, file, delimLabel, delim, selected, kept,
                   events, stack, numberVars, transformVars, pipelineVars, convertVars, yamlVars, fileVars>>

\* default: ndata = map[string]interface{}{NonemptyDefaultKey(f.DefaultKey): data}
WrapData ==
    /\ pc = "toml:Marshal"
    /\ Kind(data) \notin {"Map", "Struct"}
    /\ ndata' = SingleEntry(NonemptyDefaultKey(receiver.DefaultKey), data)
    /\ pc' = "toml:Encode"
    /\ UNCHANGED <<receiver, content, records, decoded, file, delimLabel, delim, selected, kept,
                   events, stack, numberVars, transformVars, pipelineVars, convertVars, yamlVars, fileVars>>

\* encoder.Encode(ndata) and w.Write(buffer.Bytes()): the first error is returned
EncodeData ==
    /\ pc = "toml:Encode"
    /\ \E e \in {"nil", "encode failed", "write failed"} : decoded' = Return(None, e)
    /\ pc' = "toml:returned"
    /\ UNCHANGED <<receiver, content, records, ndata, file, delimLabel, delim, selected, kept,
                   events, stack, numberVars, transformVars, pipelineVars, convertVars, yamlVars, fileVars>>

TomlNext == PassData \/ WrapData \/ EncodeData

SpecToml == TomlInit /\ [][TomlNext]_vars

\* The encoder has been given its input.
TomlEncoding == pc \in {"toml:Encode", "toml:returned"}

IsMapping(val) == val.t \in {"map", "nilmap"}

\* C13: TOML encoding hands a mapping to the encoder unchanged and every other
\* value (scalar, list, Null) as the one-entry mapping from the default key to
\* the value; the default key is the configured key without the white space
\* around it, or _ when that is empty.
C13_TomlWrapsNonMappings ==
    TomlEncoding =>
        IF IsMapping(data) THEN ndata = data
        ELSE /\ ndata.t = "map"
             /\ DOMAIN ndata.entries = {Str(ConfiguredDefaultKey)}
             /\ ndata.entries[Str(ConfiguredDefaultKey)] = data

\* A list encoded under a key of white space only: it is wrapped under _.
C13_Witness ==
    /\ TomlEncoding
    /\ data = Slice(<<Int1, Nil>>)
    /\ receiver.DefaultKey = <<" ", TabChar>>
    /\ ndata = SingleEntry(<<"_">>, data)

(***************************************************************************)
(* NewTextFormat on the two delimiter options: normalizeDelim on the       *)
(* record delimiter, then on the field delimiter, each either returning    *)
(* the delimiter or leaving through exit.                                  *)
(***************************************************************************)
DelimiterLabels ==
    { <<"N", "L">>, <<"T", "A", "B">>, <<"C", "R">>, <<"L", "F">>, <<"N", "U", "L">>, <<"N", "U", "L", "L">>, <<>>, <<",">>, <<"|">>, <<"a">>, <<" ">>, <<TabChar>>,
      <<SectionSign>>, <<"n", "l">>, <<"T", "a", "b">>, <<"X", "X">>, <<"N", "L", "L">>, <<",", " ">>, <<SectionSign, SectionSign>> }

DelimInit ==
    /\ pc = "NewTextFormat"
    /\ recordDelim \in DelimiterLabels
    /\ fieldDelim \in DelimiterLabels
    /\ command = None /\ prettyPrint = None /\ inputType = None /\ outputType = None
    /\ stringToJSONNumber = None /\ input = None /\ output = None
    /\ rmValues = None /\ rmElements = None
    /\ FormatsIdle /\ StreamIdle
    /\ AdapterIdle
    /\ NumberIdle /\ TransformIdle /\ PipelineIdle /\ YamlIdle /\ FileIdle

\* RecordDelimiter: normalizeDelim(rdelim), returning
NormalizeRecordDelim ==
    /\ pc = "NewTextFormat"
    /\ normalizeDelim(recordDelim).ok
    /\ delimLabel' = recordDelim
    /\ delim' = normalizeDelim(recordDelim).delim
    /\ pc' = "NewTextFormat:FieldDelimiter"
    /\ UNCHANGED <<receiver, content, records, decoded, file, ndata, selected, kept, events, stack,
                   numberVars, transformVars, pipelineVars, convertVars, yamlVars, fileVars>>

\* RecordDelimiter: normalizeDelim(rdelim), leaving through exit
RejectRecordDelim ==
    /\ pc = "NewTextFormat"
    /\ ~normalizeDelim(recordDelim).ok
    /\ delimLabel' = recordDelim
    /\ exitCode' = exitConfigurationError
    /\ pc' = "exit"
    /\ UNCHANGED <<receiver, content, records, decoded, file, ndata, delim, selected, kept, events, stack,
                   reader, writer, transformed, bytes, written, trace, returned,
                   numberVars, transformVars, pipelineVars, optionVars, formatVars, yamlVars, fileVars>>

\* FieldDelimiter: normalizeDelim(fdelim), returning, and the TextFormat
NormalizeFieldDelim ==
    /\ pc = "NewTextFormat:FieldDelimiter"
    /\ normalizeDelim(fieldDelim).ok
    /\ delimLabel' = fieldDelim
    /\ delim' = normalizeDelim(fieldDelim).delim
    /\ receiver' = TextFormat(delim, normalizeDelim(fieldDelim).delim)
    /\ pc' = "NewTextFormat:returned"
    /\ UNCHANGED <<content, records, decoded, file, ndata, selected, kept, events, stack,
                   numberVars, transformVars, pipelineVars, convertVars, yamlVars, fileVars>>

\* FieldDelimiter: normalizeDelim(fdelim), leaving through exit
RejectFieldDelim ==
    /\ pc = "NewTextFormat:FieldDelimiter"
    /\ ~normalizeDelim(fieldDelim).ok
    /\ delimLabel' = fieldDelim
    /\ exitCode' = exitConfigurationError
    /\ pc' = "exit"
    /\ UNCHANGED <<receiver, content, records, decoded, file, ndata, delim, selected, kept, events, stack,
                   reader, writer, transformed, bytes, written, trace, returned,
                   numberVars, transformVars, pipelineVars, optionVars, formatVars, yamlVars, fileVars>>

DelimNext == NormalizeRecordDelim \/ RejectRecordDelim \/ NormalizeFieldDelim \/ RejectFieldDelim

SpecDelim == DelimInit /\ [][DelimNext]_vars

\* normalizeDelim has been called, last on delimLabel.
Normalized == pc # "NewTextFormat"

\* The call on delimLabel returned d.
Yielded(d) == pc # "exit" /\ delim = d

\* The call on delimLabel ended the program with a configuration error.
RejectedLabel == pc = "exit" /\ exitCode = 32 /\ receiver = None

\* The labels of one character are those of one byte and those of one character
\* of several bytes.
OneCharacter(str) == Len(str) = 1

\* C14: NL is the line-boundary delimiter (the empty delimiter, on which records
\* are read as lines), TAB the tab, CR the carriage return, LF the line feed, NUL
\* and NULL the zero byte; a label of a single character is that character; every
\* other label of several characters ends the program with exit code 32 and
\* yields no delimiter.
C14_DelimiterLabels ==
    Normalized =>
        CASE delimLabel = <<"N", "L">> -> Yielded(<<>>)
          [] delimLabel = <<"T", "A", "B">> -> Yielded(<<TabChar>>)
          [] delimLabel = <<"C", "R">> -> Yielded(<<CrChar>>)
          [] delimLabel = <<"L", "F">> -> Yielded(<<LfChar>>)
          [] delimLabel \in {<<"N", "U", "L">>, <<"N", "U", "L", "L">>} -> Yielded(<<NulChar>>)
          [] OTHER -> IF OneCharacter(delimLabel) THEN Yielded(delimLabel)
                      ELSE IF Len(delimLabel) > 1 THEN RejectedLabel
                      ELSE TRUE

\* A label of the one character U+00A7, two bytes long: normalizeDelim compares
\* len(label), the number of bytes, with 1, does not find the label among the
\* names, and exits.
C14_MultiByteCharacterRejected ==
    /\ Normalized
    /\ delimLabel = <<SectionSign>>
    /\ RejectedLabel

\* What does hold: the statement of C14 with "a single character" read as "a
\* single byte".
C14_HoldsForBytes ==
    (Normalized /\ ~(OneCharacter(delimLabel) /\ ByteLen(delimLabel) > 1)) => C14_DelimiterLabels

(***************************************************************************)
(* NonEmptySliceOrArrayAsElementSelector called on one element.            *)
(***************************************************************************)
SelectorElements ==
    Elements \cup {FloatInf(FALSE), FloatNaN} \cup FlatLists \cup FlatMaps
        \cup {NilSlice, NilMap, NilStrings, Strings(<<>>), Strings(<<<<"a">>>>), Slice(<<Slice(<<>>)>>),
              Slice(<<Map(<<>>)>>)}

SelectorInit ==
    /\ pc = "SliceSelector"
    /\ selected \in SelectorElements
    /\ kept = None
    /\ receiver = None /\ content = None /\ records = None /\ decoded = None
    /\ file = None /\ ndata = None /\ delimLabel = None /\ delim = None /\ events = None /\ stack = None
    /\ NumberIdle /\ TransformIdle /\ PipelineIdle /\ ConvertIdle /\ YamlIdle /\ FileIdle

\* case reflect.Array, reflect.Slice: return value.Len() > 0
SelectSlice ==
    /\ pc = "SliceSelector"
    /\ Kind(selected) = "Slice"
    /\ kept' = NonEmptySliceOrArrayAsElementSelector(selected)
    /\ pc' = "selected"
    /\ UNCHANGED <<receiver, content, records, decoded, file, ndata, delimLabel, delim, selected,
                   events, stack, numberVars, transformVars, pipelineVars, convertVars, yamlVars, fileVars>>

\* default: return true
SelectOther ==
    /\ pc = "SliceSelector"
    /\ Kind(selected) # "Slice"
    /\ kept' = NonEmptySliceOrArrayAsElementSelector(selected)
    /\ pc' = "selected"
    /\ UNCHANGED <<receiver, content, records, decoded, file, ndata, delimLabel, delim, selected,
                   events, stack, numberVars, transformVars, pipelineVars, convertVars, yamlVars, fileVars>>

SelectorNext == SelectSlice \/ SelectOther

SpecSelector == SelectorInit /\ [][SelectorNext]_vars

SelectorReturned == pc = "selected"

IsList(val) == val.t \in {"slice", "nilslice", "strings", "nilstrings"}

\* The number of elements of a list, of entries of a mapping.
Size(val) ==
    CASE val.t = "slice" -> Len(val.elems)
      [] val.t = "strings" -> Len(val.strs)
      [] val.t = "map" -> Cardinality(DOMAIN val.entries)
      [] OTHER -> 0

\* C15, as it holds: the selector keeps every scalar and every mapping, empty or
\* not, and keeps a list only if it is not empty.
C15_KeepsAllButEmptyLists ==
    SelectorReturned => (kept <=> ~(IsList(selected) /\ Size(selected) = 0))

\* C15, as stated: the selector keeps every scalar, and keeps a list or a mapping
\* only if it is not empty.
C15_KeepsAllButEmptyCollections ==
    SelectorReturned => (kept <=> ~((IsList(selected) \/ IsMapping(selected)) /\ Size(selected) = 0))

\* The empty mapping is kept.
C15_Witness ==
    /\ SelectorReturned
    /\ selected = Map(<<>>)
    /\ kept

(***************************************************************************)
(* callingTransformer.Transform, one call and one loop iteration at a      *)
(* time.  stack holds the calls of transformSlice and transformMap under   *)
(* way; events is the log of the converter and selector invocations.  A    *)
(* child is named by its path: the indices (as they were in the input)     *)
(* and keys that lead to it.  reflect.Value.MapKeys returns the keys in no *)
(* particular order, so each loop over a map takes them in any order.      *)
(***************************************************************************)
IndexStep(i) == [i |-> i]
KeyStep(k) == [k |-> k]

ConvertEvent(at, arg, out) == [op |-> "convert", at |-> at, arg |-> arg, out |-> out, keep |-> TRUE]
SelectEvent(at, arg, keep) == [op |-> "select", at |-> at, arg |-> arg, out |-> arg, keep |-> keep]

\* The cases of transformInterface that call a converter.
IsConverted(val) == val.t \in {"string", "float", "complex"}

\* mutant of Descends: no list or mapping is entered.
DescendsNowhere(val) == FALSE

\* mutant of Converted: the converter's result is dropped.
ConvertedDropped(t, val) == val

\* The cases of transformInterface that call transformMap or transformSlice.
Descends(val) == ~IsConverted(val) /\ ~isNil(val) /\ Kind(val) \in {"Map", "Slice"}

\* The converter's result for a string, a float64 or a complex128.
Converted(t, val) ==
    CASE val.t = "string" -> CallStringConverter(t.stringTransformer, val.str)
      [] val.t = "float" -> CallNumberConverter(t.float64Transformer, val)
      [] val.t = "complex" -> CallNumberConverter(t.complex128Transformer, val)

\* What transformInterface returns for a value it does not descend into.
Visited(t, val) ==
    IF IsConverted(val) THEN Converted(t, val) ELSE IF isNil(val) THEN Nil ELSE val

VisitEvents(t, at, val) ==
    IF IsConverted(val) THEN <<ConvertEvent(at, val, Converted(t, val))>> ELSE <<>>

KeyOrders(keys) ==
    { p \in [1..Cardinality(keys) -> keys] : \A i, j \in 1..Cardinality(keys) : i # j => p[i] # p[j] }

SliceFrame(at, elems) ==
    [kind |-> "slice", at |-> at, phase |-> "convert", elems |-> elems,
     orig |-> [i \in 1..Len(elems) |-> i - 1], n |-> 0, entries |-> <<>>, keys |-> <<>>]

MapFrame(at, entries, keys) ==
    [kind |-> "map", at |-> at, phase |-> "convert", elems |-> <<>>, orig |-> <<>>, n |-> 0,
     entries |-> entries, keys |-> keys]

Frames(at, val) ==
    IF val.t = "slice" THEN {SliceFrame(at, val.elems)}
    ELSE { MapFrame(at, val.entries, keys) : keys \in KeyOrders(DOMAIN val.entries) }

Top == stack[Len(stack)]

HasNext(f) == IF f.kind = "slice" THEN f.n < Len(f.elems) ELSE f.keys # <<>>

Child(f) == IF f.kind = "slice" THEN At(f.elems, f.n) ELSE f.entries[Head(f.keys)]

ChildPath(f) ==
    IF f.kind = "slice" THEN Append(f.at, IndexStep(At(f.orig, f.n)))
    ELSE Append(f.at, KeyStep(Head(f.keys)))

\* data[n] = d and n++; data.SetMapIndex(k, reflect.ValueOf(d)) and the next key
Assigned(f, d) ==
    IF f.kind = "slice" THEN [f EXCEPT !.elems[f.n + 1] = d, !.n = f.n + 1]
    ELSE [f EXCEPT !.entries = SetMapIndex(f.entries, Head(f.keys), d), !.keys = Tail(f.keys)]

\* The loop body of the second loop on the current child.
Keeps(t, f) ==
    IF f.kind = "slice" THEN CallSliceSelector(t.sliceSelector, Child(f))
    ELSE CallKeyValueSelector(t.kvSelector, Head(f.keys), Child(f))

Removed(f) ==
    IF f.kind = "slice"
    THEN [f EXCEPT !.elems = RemoveAt(f.elems, f.n), !.orig = RemoveAt(f.orig, f.n),
                   !.n = AfterRemoval(f.n)]
    ELSE [f EXCEPT !.entries = DeleteMapIndex(f.entries, Head(f.keys)), !.keys = Tail(f.keys)]

Passed(f) ==
    IF f.kind = "slice" THEN [f EXCEPT !.n = f.n + 1] ELSE [f EXCEPT !.keys = Tail(f.keys)]

Container(f) == IF f.kind = "slice" THEN Slice(f.elems) ELSE Map(f.entries)

WithTop(f) == [stack EXCEPT ![Len(stack)] = f]

MaxWalkLen == 2
WalkLeaves == {Nil, Str1, StrS, Int1, Str(<<"1", ".", "5">>), FloatInf(FALSE)}
WalkChildren ==
    WalkLeaves \cup
    { Slice(<<>>), Slice(<<Str1, Nil>>), NilSlice,
      Map((StrA :> Str1) @@ (StrC :> Nil)), Map((StrA :> Slice(<<Str1, StrS>>))) }
WalkTrees ==
    WalkLeaves \cup { Slice(e) : e \in SeqsUpTo(WalkChildren, MaxWalkLen) }
        \cup { Map(m) : m \in MapsOver({StrA, Nil}, WalkChildren \ {NilSlice, Slice(<<>>)}) }
WalkTransformers ==
    { NewConfigurableTransformer(sc, NilFunc, NilFunc, es, kv) :
        sc \in {NilFunc, Named("StringToFiniteNumberParser"), Returning(Nil)},
        es \in {NilFunc, Named("NonNilElementSelector"), Rejecting({Int1})},
        kv \in {NilFunc, Named("NonNilValueSelector")} } \ {NopTransformer}

WalkInit ==
    /\ pc = "Transform"
    /\ data \in WalkTrees
    /\ transformer \in WalkTransformers
    /\ result = None /\ again = None
    /\ events = <<>>
    /\ stack = <<>>
    /\ receiver = None /\ content = None /\ records = None /\ decoded = None
    /\ file = None /\ ndata = None /\ delimLabel = None /\ delim = None
    /\ selected = None /\ kept = None
    /\ NumberIdle /\ PipelineIdle /\ ConvertIdle /\ YamlIdle /\ FileIdle

\* Transform on nil or on a value transformInterface returns at once.
TransformLeaf ==
    /\ pc = "Transform"
    /\ ~Descends(data)
    /\ events' = VisitEvents(transformer, <<>>, data)
    /\ result' = Return(Visited(transformer, data), "nil")
    /\ pc' = "returned"
    /\ UNCHANGED <<data, transformer, again, stack, receiver, content, records, decoded, file,
                   ndata, delimLabel, delim, selected, kept, numberVars, pipelineVars,
                   convertVars, yamlVars, fileVars>>

\* Transform on a list or a mapping: transformSlice or transformMap is entered.
TransformContainer ==
    /\ pc = "Transform"
    /\ Descends(data)
    /\ stack' \in { <<f>> : f \in Frames(<<>>, data) }
    /\ pc' = "transforming"
    /\ UNCHANGED <<data, transformer, result, again, events, receiver, content, records, decoded,
                   file, ndata, delimLabel, delim, selected, kept, numberVars, pipelineVars,
                   convertVars, yamlVars, fileVars>>

\* transformMap, first loop: continue on a nil value.
SkipNilValue ==
    /\ pc = "transforming"
    /\ Top.phase = "convert" /\ HasNext(Top)
    /\ Top.kind = "map" /\ SkipsValue(Child(Top))
    /\ stack' = WithTop(Passed(Top))
    /\ UNCHANGED <<pc, data, transformer, result, again, events, receiver, content, records,
                   decoded, file, ndata, delimLabel, delim, selected, kept, numberVars,
                   pipelineVars, convertVars, yamlVars, fileVars>>

\* First loop, on a child transformInterface returns at once.
TransformChild ==
    /\ pc = "transforming"
    /\ Top.phase = "convert" /\ HasNext(Top)
    /\ ~(Top.kind = "map" /\ SkipsValue(Child(Top)))
    /\ ~Descends(Child(Top))
    /\ events' = events \o VisitEvents(transformer, ChildPath(Top), Child(Top))
    /\ stack' = WithTop(Assigned(Top, Visited(transformer, Child(Top))))
    /\ UNCHANGED <<pc, data, transformer, result, again, receiver, content, records, decoded,
                   file, ndata, delimLabel, delim, selected, kept, numberVars, pipelineVars,
                   convertVars, yamlVars, fileVars>>

\* First loop, on a child that is a list or a mapping: the nested call is entered.
DescendChild ==
    /\ pc = "transforming"
    /\ Top.phase = "convert" /\ HasNext(Top)
    /\ Descends(Child(Top))
    /\ stack' \in { Append(stack, f) : f \in Frames(ChildPath(Top), Child(Top)) }
    /\ UNCHANGED <<pc, data, transformer, result, again, events, receiver, content, records,
                   decoded, file, ndata, delimLabel, delim, selected, kept, numberVars,
                   pipelineVars, convertVars, yamlVars, fileVars>>

\* The first loop is over and the second begins, for a map on data.MapKeys().
StartRemoval ==
    /\ pc = "transforming"
    /\ Top.phase = "convert" /\ ~HasNext(Top)
    /\ \E keys \in KeyOrders(DOMAIN Top.entries) :
          stack' = WithTop([Top EXCEPT !.phase = "select", !.n = 0,
                                       !.keys = IF Top.kind = "map" THEN keys ELSE <<>>])
    /\ UNCHANGED <<pc, data, transformer, result, again, events, receiver, content, records,
                   decoded, file, ndata, delimLabel, delim, selected, kept, numberVars,
                   pipelineVars, convertVars, yamlVars, fileVars>>

\* Second loop: the selector on the current element or entry, and its removal.
SelectChild ==
    /\ pc = "transforming"
    /\ Top.phase = "select" /\ HasNext(Top)
    /\ events' = Append(events, SelectEvent(ChildPath(Top), Child(Top), Keeps(transformer, Top)))
    /\ stack' = WithTop(IF Keeps(transformer, Top) THEN Passed(Top) ELSE Removed(Top))
    /\ UNCHANGED <<pc, data, transformer, result, again, receiver, content, records, decoded,
                   file, ndata, delimLabel, delim, selected, kept, numberVars, pipelineVars,
                   convertVars, yamlVars, fileVars>>

\* A nested transformSlice or transformMap returns to the first loop of its caller.
ReturnToCaller ==
    /\ pc = "transforming"
    /\ Top.phase = "select" /\ ~HasNext(Top)
    /\ Len(stack) > 1
    /\ stack' = [SubSeq(stack, 1, Len(stack) - 1) EXCEPT
                    ![Len(stack) - 1] = Assigned(stack[Len(stack) - 1], Container(Top))]
    /\ UNCHANGED <<pc, data, transformer, result, again, events, receiver, content, records,
                   decoded, file, ndata, delimLabel, delim, selected, kept, numberVars,
                   pipelineVars, convertVars, yamlVars, fileVars>>

\* The outermost transformSlice or transformMap returns, and Transform with it.
ReturnTransformed ==
    /\ pc = "transforming"
    /\ Top.phase = "select" /\ ~HasNext(Top)
    /\ Len(stack) = 1
    /\ result' = Return(Container(Top), "nil")
    /\ stack' = <<>>
    /\ pc' = "returned"
    /\ UNCHANGED <<data, transformer, again, events, receiver, content, records, decoded, file,
                   ndata, delimLabel, delim, selected, kept, numberVars, pipelineVars,
                   convertVars, yamlVars, fileVars>>

WalkNext ==
    \/ TransformLeaf \/ TransformContainer \/ SkipNilValue \/ TransformChild \/ DescendChild
    \/ StartRemoval \/ SelectChild \/ ReturnToCaller \/ ReturnTransformed

SpecWalk == WalkInit /\ [][WalkNext]_vars

\* The calls taken one at a time return what the transformer returns as a whole.
WalkReturnsTransform == pc = "returned" => result = Transform(transformer, data)

\* The container a selector event belongs to: the path of the child less its last step.
ContainerOf(e) == SubSeq(e.at, 1, Len(e.at) - 1)

\* The path p leads to a place strictly above the one q leads to.
Above(p, q) == Len(p) < Len(q) /\ SubSeq(q, 1, Len(p)) = p

\* The value of the input at a path.
RECURSIVE SubtreeAt(_, _)
SubtreeAt(val, at) ==
    IF at = <<>> THEN val
    ELSE IF "i" \in DOMAIN Head(at) THEN SubtreeAt(At(val.elems, Head(at).i), Tail(at))
    ELSE SubtreeAt(val.entries[Head(at).k], Tail(at))

\* An event of the transformation of something inside the container at path p:
\* a converter called under p, or a selector called on a container under p.
Within(e, p) ==
    IF e.op = "convert" THEN Above(p, e.at) ELSE Above(p, ContainerOf(e))

\* C16: for every list and mapping a configurable transformer processes, every
\* converter invocation on its children, with all of the transformation of the
\* containers nested in it, comes before the first selector evaluation on it, and
\* a selector is given the converted value of the element or entry, never the
\* value before conversion.
C16_ConversionBeforeSelection ==
    \A i \in DOMAIN events :
        events[i].op = "select" =>
            /\ \A j \in DOMAIN events : Within(events[j], ContainerOf(events[i])) => j < i
            /\ events[i].arg =
                   TransformWith(transformer, SubtreeAt(data, events[i].at)).value

\* A list whose string was converted to an integer inside a nested list before
\* the selector of the outer list was given the nested list as converted.
C16_Witness ==
    /\ pc = "returned"
    /\ data = Slice(<<Slice(<<Str1, Nil>>), Str1>>)
    /\ \E i, j \in DOMAIN events :
          /\ events[j] = ConvertEvent(<<IndexStep(0), IndexStep(0)>>, Str1, Int1)
          /\ events[i].op = "select" /\ events[i].at = <<IndexStep(0)>>
          /\ events[i].arg # SubtreeAt(data, events[i].at)
          /\ j < i

\* The list or mapping of the input that a call under way was entered on.
InputOf(f) == SubtreeAt(data, f.at)

\* The keys of the input mapping of f whose value is nil.
NilValuedKeys(f) == { k \in DOMAIN InputOf(f).entries : isNil(InputOf(f).entries[k]) }

\* The second loop of f has not come to key k: f is in its first loop, or k is
\* among the keys still to be taken.
NotYetSelected(f, k) == f.phase = "convert" \/ \E i \in DOMAIN f.keys : f.keys[i] = k

\* C17: no converter is invoked on a nil value; a top-level Null is returned as
\* Null without an error; a nil list element is nil after the conversion pass; a
\* mapping entry with a nil value is skipped by the conversion pass and keeps its
\* value, is then presented to the pair selector, and is removed only if the
\* selector rejects it.
C17_NilNeverConverted ==
    /\ \A i \in DOMAIN events : events[i].op = "convert" => ~isNil(events[i].arg)
    /\ (pc = "returned" /\ data = Nil) => (result = Return(Nil, "nil") /\ events = <<>>)
    /\ \A i \in DOMAIN events :
          (events[i].op = "select" /\ isNil(SubtreeAt(data, events[i].at))) => isNil(events[i].arg)
    /\ \A d \in DOMAIN stack :
          /\ (stack[d].kind = "slice" /\ stack[d].phase = "convert") =>
                \A i \in 1..stack[d].n : isNil(InputOf(stack[d]).elems[i]) => isNil(stack[d].elems[i])
          /\ stack[d].kind = "map" =>
                \A k \in NilValuedKeys(stack[d]) :
                    IF NotYetSelected(stack[d], k)
                    THEN /\ k \in DOMAIN stack[d].entries
                         /\ stack[d].entries[k] = InputOf(stack[d]).entries[k]
                    ELSE \E keep \in BOOLEAN :
                            /\ \E i \in DOMAIN events :
                                  events[i] = SelectEvent(Append(stack[d].at, KeyStep(k)),
                                                          InputOf(stack[d]).entries[k], keep)
                            /\ keep <=> k \in DOMAIN stack[d].entries
                            /\ keep => stack[d].entries[k] = InputOf(stack[d]).entries[k]

\* A mapping with a nil value under the string-to-number converter alone: the
\* entry was not converted, went to the pair selector and is in the result.
C17_Witness ==
    /\ pc = "returned"
    /\ data = Map((Nil :> Nil) @@ (StrA :> Str1))
    /\ transformer.stringTransformer = Named("StringToFiniteNumberParser")
    /\ transformer.kvSelector = Named("keepAll")
    /\ \E i \in DOMAIN events : events[i] = SelectEvent(<<KeyStep(Nil)>>, Nil, TRUE)
    /\ result = Return(Map((Nil :> Nil) @@ (StrA :> Int1)), "nil")

\* The transformer of the string-to-number option: a string converter, no other slot.
StringOnly ==
    transformer = NewConfigurableTransformer(Named("StringToFiniteNumberParser"),
                                             NilFunc, NilFunc, NilFunc, NilFunc)

\* out is the tree val with each string that is a list element or a mapping value
\* (or the whole input) replaced by the number parser's result for it: lists of
\* the same length in the same order, mappings of the same keys, nil where val is
\* nil, and every other leaf as it was.
RECURSIVE SameShape(_, _)
SameShape(val, out) ==
    IF val.t = "string" THEN out = StringToFiniteNumberParser(val.str)
    ELSE IF isNil(val) THEN isNil(out)
    ELSE IF val.t = "slice"
         THEN /\ out.t = "slice"
              /\ Len(out.elems) = Len(val.elems)
              /\ \A i \in 1..Len(val.elems) : SameShape(val.elems[i], out.elems[i])
    ELSE IF val.t = "map"
         THEN /\ out.t = "map"
              /\ DOMAIN out.entries = DOMAIN val.entries
              /\ \A k \in DOMAIN val.entries : SameShape(val.entries[k], out.entries[k])
    ELSE out = val

\* C18: a transformer with only the string-to-finite-number converter keeps the
\* shape of the tree (lists their length and order, mappings their keys, which
\* are not converted), leaves every leaf that is not a String as it is, passes no
\* Integer to a converter, and replaces each String leaf by the converter's
\* result, which is not transformed again.
C18_StringConverterKeepsShape ==
    StringOnly =>
        /\ pc = "returned" => (result.err = "nil" /\ SameShape(data, result.value))
        /\ \A i \in DOMAIN events :
              events[i].op = "convert" =>
                 /\ events[i].arg.t # "int"
                 /\ events[i].arg = SubtreeAt(data, events[i].at)
                 /\ \A j \in DOMAIN events :
                       (events[j].op = "convert" /\ events[j].at = events[i].at) => j = i

\* A list holding a mapping holding a list: the strings "1" and "1.5" became an
\* integer and a float, "s" and the integer stayed, the key "a" stayed.
C18_Witness ==
    /\ pc = "returned"
    /\ StringOnly
    /\ data = Slice(<<Map((StrA :> Slice(<<Str1, StrS>>))), Str(<<"1", ".", "5">>)>>)
    /\ result.value.elems[1] = Map((StrA :> Slice(<<Int1, StrS>>)))
    /\ result.value.elems[2].t = "float"

\* The pair selector slot was left out, so that every pair is kept.
KeepsAllPairs == transformer.kvSelector = Named("keepAll")

\* Every mapping under transformation, and the mapping returned, has the keys of
\* the input mapping it was made from.
KeySetsKept ==
    /\ \A d \in DOMAIN stack :
          stack[d].kind = "map" => DOMAIN stack[d].entries = DOMAIN InputOf(stack[d]).entries
    /\ (pc = "returned" /\ data.t = "map") =>
          (result.value.t = "map" /\ DOMAIN result.value.entries = DOMAIN data.entries)

\* C19: with the pair selector left out, transforming a mapping adds and removes
\* no entry, whatever the converters return for the values, Null included: the
\* entry then holds Null.
C19_KeepAllKeepsKeySet == KeepsAllPairs => KeySetsKept

\* A string converter that returns nil, on a mapping with one string value: the
\* first loop of transformMap stores the result with SetMapIndex(k,
\* reflect.ValueOf(nil)), which deletes the key, and the mapping comes back empty.
C19_NilResultDeletesEntry ==
    /\ pc = "returned"
    /\ KeepsAllPairs
    /\ transformer.stringTransformer = Returning(Nil)
    /\ data = Map((StrA :> Str1))
    /\ result = Return(Map(<<>>), "nil")

\* What does hold: the key set is kept when no converter returns nil.
C19_HoldsForNonNilResults ==
    (KeepsAllPairs /\ transformer.stringTransformer # Returning(Nil)) => KeySetsKept

(***************************************************************************)
(* The delimited-text adapter followed by a transformer, as ConvertStream  *)
(* calls them: informat.Unmarshal, then transformer.Transform on what it   *)
(* returned.  A failed type assertion is a run-time panic, which nothing   *)
(* in the program recovers from.                                           *)
(***************************************************************************)
\* The transformers of the remove-nulls command with one removal option set, and
\* the transformer of the string-to-number option.
DecodedTransformers ==
    { NewMultiTransformer(<<NopTransformer,
                            [kind |-> "NilRemovalTransformer", RemoveNilKeys |-> FALSE,
                             RemoveNilValues |-> v, RemoveNilElements |-> ~v]>>) : v \in BOOLEAN }
    \cup { NewConfigurableTransformer(Named("StringToFiniteNumberParser"),
                                      NilFunc, NilFunc, NilFunc, NilFunc) }

DecodedInit ==
    /\ pc = "text:ReadAll"
    /\ receiver \in TextFormats
    /\ content \in BytesUpTo(MaxBytes)
    /\ transformer \in DecodedTransformers
    /\ data = None /\ result = None /\ again = None
    /\ records = None /\ decoded = None
    /\ file = None /\ ndata = None /\ delimLabel = None /\ delim = None
    /\ selected = None /\ kept = None /\ events = None /\ stack = None
    /\ NumberIdle /\ PipelineIdle /\ ConvertIdle /\ YamlIdle /\ FileIdle

\* transformed, err = transformer.Transform(data), returning
TransformDecoded ==
    /\ pc = "text:returned"
    /\ ~IsPanic(Transform(transformer, decoded.value).err)
    /\ data' = decoded.value
    /\ result' = Transform(transformer, decoded.value)
    /\ pc' = "transformed"
    /\ UNCHANGED <<transformer, again, adapterVars, numberVars, pipelineVars, convertVars,
                   yamlVars, fileVars>>

\* transformer.Transform(data), panicking in data.([]interface{})
TransformPanics ==
    /\ pc = "text:returned"
    /\ IsPanic(Transform(transformer, decoded.value).err)
    /\ data' = decoded.value
    /\ pc' = "panicked"
    /\ UNCHANGED <<transformer, result, again, adapterVars, numberVars, pipelineVars,
                   convertVars, yamlVars, fileVars>>

DecodedNext == TextNext \/ TransformDecoded \/ TransformPanics

SpecDecoded == DecodedInit /\ [][DecodedNext]_vars

\* C20: on every tree an input adapter returns, a configurable transformer with a
\* slot set (nil removal, string-to-number) ends by returning a value or an
\* error, never by an abort; the flat list of Strings of delimited text without
\* a field delimiter is processed as any list is.
C20_TransformNeverAborts ==
    /\ pc # "panicked"
    /\ (pc = "transformed" /\ receiver.FieldDelimiter = <<>> /\ result.err = "nil") =>
          /\ Kind(result.value) = "Slice"
          /\ Size(result.value) = Size(data)

\* The one line "a" read as lines without a field delimiter, then nil removal:
\* the []string reaches data.([]interface{}) and the program panics.
C20_StringListPanics ==
    /\ pc = "panicked"
    /\ content = <<"a", LfChar>>
    /\ receiver = TextFormat(<<>>, <<>>)
    /\ data = Strings(<<<<"a">>>>)
    /\ transformer.kind = "TransformerPipeline"

\* What does hold: Transform returns on every list of lists (a field delimiter
\* is configured) and on the nil list; it panics on every non-nil []string.
C20_PanicsOnStringListsOnly ==
    /\ pc = "panicked" => data.t = "strings"
    /\ pc = "transformed" => (data.t # "strings" /\ result.err = "nil")

(***************************************************************************)
(* Claims about the output file of ConvertFile                             *)
(***************************************************************************)
\* ConvertFile has returned without an error and outfile names a file: every
\* stage up to the write succeeded.
ConvertedToFile ==
    /\ pc \in {"returned", "exited"}
    /\ Succeeded("write")
    /\ ~IsStandardStream(output)

\* The cells of the file after the first n.
Beyond(f, n) == SubSeq(f.content, n + 1, Len(f.content))

\* C21: when ConvertFile succeeds with a named output file, the content of that
\* file is then exactly the byte sequence the encoder produced, whatever the
\* file held before the run: nothing of a longer previous content remains.
C21_FileHoldsEncoderOutput ==
    ConvertedToFile =>
        /\ outputFile.exists
        /\ outputFile.content = bytes

\* A successful run onto a file that was longer than the new output: the file
\* begins with the encoder's bytes and ends with a cell of its old content.
C21_OldContentRemains ==
    /\ ConvertedToFile
    /\ written = bytes
    /\ Len(outputFile.content) = MaxOldLen
    /\ SubSeq(outputFile.content, 1, Len(bytes)) = bytes
    /\ Beyond(outputFile, Len(bytes)) # <<>>
    /\ \A k \in DOMAIN Beyond(outputFile, Len(bytes)) :
           Beyond(outputFile, Len(bytes))[k] = OldCell

\* What does hold: after a successful run the file begins with the encoder's
\* bytes, and whatever follows them is old content that lay beyond their length.
C21_FileBeginsWithEncoderOutput ==
    ConvertedToFile =>
        /\ outputFile.exists
        /\ offset = Len(bytes)
        /\ SubSeq(outputFile.content, 1, Len(bytes)) = bytes
        /\ Len(outputFile.content) <= (IF MaxOldLen > Len(bytes) THEN MaxOldLen ELSE Len(bytes))
        /\ \A k \in DOMAIN Beyond(outputFile, Len(bytes)) :
               Beyond(outputFile, Len(bytes))[k] = OldCell

(***************************************************************************)
(* Termination of callingTransformer.Transform: the walk above on lists    *)
(* long enough for every way transformSlice cuts an element out (first,    *)
(* last, between two others), under every pattern of rejected elements.    *)
(* Transform runs in the one goroutine of its caller and its converters    *)
(* and selectors return, so a step that can be taken is taken: weak        *)
(* fairness of the steps.                                                  *)
(***************************************************************************)
MaxRemovalLen == 3
RemovalLeaves == {Nil, Int1, Str1}
RemovalChildren ==
    RemovalLeaves \cup {Slice(<<Int1, Str1>>), Map((StrA :> Nil) @@ (StrC :> Int1))}
RemovalTrees ==
    RemovalLeaves \cup { Slice(e) : e \in SeqsUpTo(RemovalChildren, MaxRemovalLen) }
        \cup { Map((StrA :> Slice(<<Nil, Int1, Nil>>)) @@ (StrC :> Nil)) }
RemovalTransformers ==
    { NewConfigurableTransformer(sc, NilFunc, NilFunc, es, Named("NonNilValueSelector")) :
        sc \in {NilFunc, Returning(Nil)},
        es \in {Named("NonNilElementSelector"), Rejecting({Int1}), Rejecting({Nil, Int1, Str1})} }

RemovalInit ==
    /\ pc = "Transform"
    /\ data \in RemovalTrees
    /\ transformer \in RemovalTransformers
    /\ result = None /\ again = None
    /\ events = <<>>
    /\ stack = <<>>
    /\ receiver = None /\ content = None /\ records = None /\ decoded = None
    /\ file = None /\ ndata = None /\ delimLabel = None /\ delim = None
    /\ selected = None /\ kept = None
    /\ NumberIdle /\ PipelineIdle /\ ConvertIdle /\ YamlIdle /\ FileIdle

SpecTermination == RemovalInit /\ [][WalkNext]_vars /\ WF_vars(WalkNext)

\* The second loop of transformSlice is at the head of an iteration.
InRemovalLoop ==
    /\ pc = "transforming"
    /\ Top.phase = "select"
    /\ Top.kind = "slice"
    /\ HasNext(Top)

\* From frame f to frame g one element is gone and the index is the same, or
\* the elements are the same and the index is one further.
RemovedOrAdvanced(f, g) ==
    \/ Len(g.elems) = Len(f.elems) - 1 /\ g.n = f.n
    \/ g.elems = f.elems /\ g.n = f.n + 1

\* Each iteration of the removal loop removes one element or advances the index.
RemovalLoopProgresses ==
    [][InRemovalLoop =>
          /\ Len(stack') = Len(stack)
          /\ RemovedOrAdvanced(Top, stack'[Len(stack)])]_vars

\* C22: Transform of a configurable transformer returns on every finite value
\* tree; the removal loop of transformSlice ends for every pattern of rejected
\* elements, each iteration either removing one element or advancing the index.
C22_TransformTerminates ==
    /\ <>(pc = "returned")
    /\ RemovalLoopProgresses

\* Transform has returned the empty list for a list of three elements that the
\* selector rejected one after the other, the index staying at 0.
C22_Witness ==
    /\ pc = "returned"
    /\ data = Slice(<<Int1, Int1, Int1>>)
    /\ result = Return(Slice(<<>>), "nil")
    /\ Len(events) = MaxRemovalLen
    /\ \A k \in DOMAIN events : events[k].op = "select" /\ ~events[k].keep

====
